---- MODULE Spec2Model ----
(***************************************************************************)
(* Model of the acli command pipeline: the tokenizer (parser/tokenizer.ts), *)
(* the command router (router/registry.ts) and the argument parser         *)
(* (parser/args.ts).                                                       *)
(*                                                                         *)
(* A string is a sequence of one-character strings; a token list is a      *)
(* sequence of such sequences.                                             *)
(***************************************************************************)
EXTENDS Integers, Sequences, FiniteSets, TLC

VARIABLES
  pc,             \* position of the tokenize call: "idle", "scan", "done"
  round,          \* 1 for the call on the caller's input, 2 for the call on the re-joined tokens
  first,          \* result of the round-1 call, kept for the round-2 comparison
  input,          \* parameter `input` of tokenize
  i,              \* loop index of tokenize (1-based here, 0-based in the source)
  tokens,         \* local `tokens`
  current,        \* local `current`
  inSingleQuote,  \* local `inSingleQuote`
  inDoubleQuote,  \* local `inDoubleQuote`
  isEscaped,      \* local `isEscaped`
  result,         \* value returned by tokenize
  registry,       \* parameter `registry` of extractCommandPath
  cmdTokens,      \* parameter `tokens` of extractCommandPath
  rpc,            \* position of the router call: "ready", "returned", "found"
  extracted,      \* value returned by extractCommandPath: [path, rest]
  found,          \* value returned by findCommand: a node, or null
  argDefs,        \* parameter `argDefs` of parseArgs: the fields in declaration order
  argTokens,      \* parameter `tokens` of parseArgs
  apc,            \* position of the parseArgs call: "idle", "scan", "done"
  ai,             \* loop index `i` of parseArgs (1-based here, 0-based in the source)
  rawValues,      \* local `rawValues`: field name -> raw value
  positionalValues, \* local `positionalValues`
  parsed,         \* value returned by parseArgs
  epc,            \* position of the executeCommand call: "idle", "awaiting" (the handler), "done"
  command,        \* parameter `command` of executeCommand
  execResult,     \* value returned by executeCommand
  handlerCalls,   \* the handler invocations so far: the command's path and the argument map
  stdin,          \* lines of the input stream not yet emitted as 'line' events
  arrived,        \* lines emitted as 'line' events so far
  queue,          \* `queue` of startRepl
  processing,     \* `processing` of startRepl
  exiting,        \* `exiting` of startRepl
  lpc,            \* position of processQueue: "none", "microtask", "handler"
  active,         \* number of processLine calls that have not returned
  started,        \* lines handed to processLine so far
  printed,        \* what console.log has written so far
  exited          \* process.exit has been called

tokVars == <<pc, round, first, input, i, tokens, current, inSingleQuote, inDoubleQuote, isEscaped, result>>

routerVars == <<registry, cmdTokens, rpc, extracted, found>>

argsVars == <<argDefs, argTokens, apc, ai, rawValues, positionalValues, parsed>>

execVars == <<epc, command, execResult, handlerCalls>>

replVars == <<stdin, arrived, queue, processing, exiting, lpc, active, started, printed, exited>>

hostVars == <<execVars, replVars>>

vars == <<tokVars, routerVars, argsVars, hostVars>>

\* ---------------------------------------------------------------------------
\* Program constants
\* ---------------------------------------------------------------------------
MAX_COMMAND_LENGTH == 10000
MAX_ARGS == 100
MAX_ARG_LENGTH == 10000

\* ---------------------------------------------------------------------------
\* Characters
\* ---------------------------------------------------------------------------
\* U+3000 IDEOGRAPHIC SPACE, one UTF-16 code unit, written as a name.
FullWidthSpace == "U+3000"

\* The characters the JavaScript class \s matches, restricted to the ones the
\* inputs of this model draw from.
WhitespaceChars == {" ", "\t", FullWidthSpace}

IsWhitespaceAsciiOnly(char) == char \in {" ", "\t"}

\* /\s/.test(char)
IsWhitespace(char) == char \in WhitespaceChars

\* Characters conventionally special to a shell; to tokenize they are ordinary.
\* U+0060 GRAVE ACCENT (backtick), written as a name.
Backtick == "U+0060"

ShellMeta == {";", "|", "&", Backtick, "$", "(", ")", "<", ">"}

\* ---------------------------------------------------------------------------
\* Results
\* ---------------------------------------------------------------------------
error(code, message) == [ok |-> FALSE, code |-> code, message |-> message]

Ok(value) == [ok |-> TRUE, value |-> value]

NoResult == [ok |-> FALSE, code |-> "NONE", message |-> "not returned"]

CommandTooLong == error("PARSE_ERROR", "Command exceeds maximum length")
ArgTooLong == error("PARSE_ERROR", "Argument exceeds maximum length")
UnclosedSingle == error("PARSE_ERROR", "Unclosed single quote")
UnclosedDouble == error("PARSE_ERROR", "Unclosed double quote")
TooManyArgs == error("PARSE_ERROR", "Too many arguments")

\* ---------------------------------------------------------------------------
\* tokenize: the guards of the loop body, in the order the code tests them.
\* st is the record of the locals, char the character input[i].
\* ---------------------------------------------------------------------------
ExceedsCommandLengthNever(s) == FALSE

ExceedsCommandLengthInclusive(s) == Len(s) >= MAX_COMMAND_LENGTH

ExceedsCommandLength(s) == Len(s) > MAX_COMMAND_LENGTH

StartsEscapeInSingleToo(st, char) == char = "\\"

StartsEscapeUnquotedOnly(st, char) == char = "\\" /\ ~st.inSingleQuote /\ ~st.inDoubleQuote

StartsEscape(st, char) == char = "\\" /\ ~st.inSingleQuote

TogglesSingleQuote(st, char) == char = "'" /\ ~st.inDoubleQuote

TogglesDoubleQuote(st, char) == char = "\"" /\ ~st.inSingleQuote

SeparatesTokens(st, char) == IsWhitespace(char) /\ ~st.inSingleQuote /\ ~st.inDoubleQuote

\* `if (current)`: a non-empty string is truthy
Truthy(s) == Len(s) > 0

ExceedsArgLength(s) == Len(s) > MAX_ARG_LENGTH

ExceedsMaxArgsInclusive(ts) == Len(ts) >= MAX_ARGS

ExceedsMaxArgsLate(ts) == Len(ts) > MAX_ARGS + 1

ExceedsMaxArgs(ts) == Len(ts) > MAX_ARGS

\* The locals of tokenize as one record; ret is the value returned, NoResult while running.
Locals == [tokens |-> tokens, current |-> current, inSingleQuote |-> inSingleQuote,
           inDoubleQuote |-> inDoubleQuote, isEscaped |-> isEscaped, ret |-> NoResult]

\* One iteration of the for loop on character `char`; ret # NoResult is an early return.
LoopBody(st, char) ==
  IF st.isEscaped
    THEN [st EXCEPT !.current = Append(@, char), !.isEscaped = FALSE]
  ELSE IF StartsEscape(st, char)
    THEN [st EXCEPT !.isEscaped = TRUE]
  ELSE IF TogglesSingleQuote(st, char)
    THEN [st EXCEPT !.inSingleQuote = ~@]
  ELSE IF TogglesDoubleQuote(st, char)
    THEN [st EXCEPT !.inDoubleQuote = ~@]
  ELSE IF SeparatesTokens(st, char)
    THEN IF Truthy(st.current)
           THEN IF ExceedsArgLength(st.current)
                  THEN [st EXCEPT !.ret = ArgTooLong]
                  ELSE [st EXCEPT !.tokens = Append(@, st.current), !.current = <<>>]
           ELSE st
  ELSE [st EXCEPT !.current = Append(@, char)]

\* "Add final token": tokens after `if (current) tokens.push(current)`.
PushFinalWithBackslash(st) ==
  IF st.isEscaped THEN Append(st.tokens, Append(st.current, "\\"))
  ELSE IF Len(st.current) > 0 THEN Append(st.tokens, st.current)
  ELSE st.tokens

PushFinalDropped(st) == st.tokens

PushFinal(st) == IF Truthy(st.current) THEN Append(st.tokens, st.current) ELSE st.tokens

AfterLoopCountFirst(st) ==
  IF ExceedsMaxArgs(PushFinal(st)) THEN [st EXCEPT !.tokens = PushFinal(st), !.ret = TooManyArgs]
  ELSE IF st.inSingleQuote THEN [st EXCEPT !.ret = UnclosedSingle]
  ELSE IF st.inDoubleQuote THEN [st EXCEPT !.ret = UnclosedDouble]
  ELSE IF Truthy(st.current) /\ ExceedsArgLength(st.current) THEN [st EXCEPT !.ret = ArgTooLong]
  ELSE [st EXCEPT !.tokens = PushFinal(st), !.ret = Ok(PushFinal(st))]

\* The statements after the loop, in the order of the code: the unclosed-quote
\* checks, the final token with its length check, the count check, the return.
AfterLoop(st) ==
  IF st.inSingleQuote THEN [st EXCEPT !.ret = UnclosedSingle]
  ELSE IF st.inDoubleQuote THEN [st EXCEPT !.ret = UnclosedDouble]
  ELSE IF Truthy(st.current) /\ ExceedsArgLength(st.current) THEN [st EXCEPT !.ret = ArgTooLong]
  ELSE IF ExceedsMaxArgs(PushFinal(st)) THEN [st EXCEPT !.tokens = PushFinal(st), !.ret = TooManyArgs]
  ELSE [st EXCEPT !.tokens = PushFinal(st), !.ret = Ok(PushFinal(st))]

\* join(tokens, sep), the list split in halves to keep the evaluation shallow
RECURSIVE Join(_, _)
Join(ts, sep) ==
  IF Len(ts) = 0 THEN <<>>
  ELSE IF Len(ts) = 1 THEN ts[1]
  ELSE LET half == Len(ts) \div 2
       IN Join(SubSeq(ts, 1, half), sep) \o sep \o Join(SubSeq(ts, half + 1, Len(ts)), sep)

\* ---------------------------------------------------------------------------
\* Inputs of tokenize
\* ---------------------------------------------------------------------------
MaxLen == 4
MaxSuffix == 2
MaxOver == 2

ScanAlphabet == {"a", " ", "'", "\"", "\\", ";"}

RECURSIVE StringsUpTo(_, _)
StringsUpTo(alphabet, n) ==
  IF n = 0 THEN {<<>>}
  ELSE LET shorter == StringsUpTo(alphabet, n - 1)
       IN shorter \cup {Append(s, c) : s \in {t \in shorter : Len(t) = n - 1}, c \in alphabet}

\* k copies of s, concatenated
Repeat(s, k) == [j \in 1..(k * Len(s)) |-> s[((j - 1) % Len(s)) + 1]]

\* n times the character c
Fill(c, n) == [j \in 1..n |-> c]

\* n words "a" separated by single spaces: Array(n).fill('a').join(' ')
Words(n) == IF n = 0 THEN <<>> ELSE Repeat(<<"a", " ">>, n - 1) \o <<"a">>

ShortInputs == StringsUpTo(ScanAlphabet, MaxLen)

\* Around the token-count limit: k words "a" each followed by a space, then a short tail.
CountInputs ==
  {Repeat(<<"a", " ">>, k) \o tail :
     k \in (MAX_ARGS - 1)..(MAX_ARGS + 1), tail \in StringsUpTo({"a", "'", "\"", "\\"}, MaxSuffix)}

\* Shell metacharacters and the whitespace characters, unquoted, quoted and escaped.
CharInputs ==
  {<<"a", c, " ", c, "a">> : c \in ShellMeta \cup WhitespaceChars}
  \cup {<<"'", c, "'", c>> : c \in ShellMeta \cup WhitespaceChars}
  \cup {<<"\"", c, "\"", "\\", c>> : c \in ShellMeta \cup WhitespaceChars}
  \cup StringsUpTo(WhitespaceChars, 3)

\* `--name ""` and `--name ''`
NameOption == <<"-", "-", "n", "a", "m", "e">>

EmptyQuotedInputs == {NameOption \o <<" ", q, q>> : q \in {"'", "\""}}

ScanInputs == ShortInputs \cup CountInputs \cup CharInputs \cup EmptyQuotedInputs

\* Around the command-length limit: one input of exactly MAX_COMMAND_LENGTH
\* characters, longer inputs with every short head, and the word-count inputs.
\* ArgOverInput is 'a ' followed by a word of one character more than a token
\* may have.
ArgOverInput == <<"a", " ">> \o Fill("x", MAX_ARG_LENGTH + 1)

LimitInputs ==
  {Fill("x", MAX_COMMAND_LENGTH), ArgOverInput}
  \cup {head \o Fill("x", MAX_COMMAND_LENGTH + over - Len(head)) :
          head \in StringsUpTo(ScanAlphabet, 2), over \in 1..MaxOver}
  \cup CountInputs

\* ---------------------------------------------------------------------------
\* The tokenize call as a state machine
\* ---------------------------------------------------------------------------
TokInit ==
  /\ pc = "idle"
  /\ round = 1
  /\ first = NoResult
  /\ input = <<>>
  /\ i = 1
  /\ tokens = <<>>
  /\ current = <<>>
  /\ inSingleQuote = FALSE
  /\ inDoubleQuote = FALSE
  /\ isEscaped = FALSE
  /\ result = NoResult

\* Entry of tokenize(s): the length check and the initialisation of the locals.
Enter(s) ==
  /\ input' = s
  /\ i' = 1
  /\ tokens' = <<>>
  /\ current' = <<>>
  /\ inSingleQuote' = FALSE
  /\ inDoubleQuote' = FALSE
  /\ isEscaped' = FALSE
  /\ IF ExceedsCommandLength(s)
       THEN pc' = "done" /\ result' = CommandTooLong
       ELSE pc' = "scan" /\ result' = NoResult

Call(Inputs) ==
  /\ pc = "idle"
  /\ \E s \in Inputs : Enter(s)
  /\ UNCHANGED <<round, first>>
  /\ UNCHANGED <<routerVars, argsVars, hostVars>>

\* One iteration of the loop.
Step ==
  /\ pc = "scan"
  /\ i <= Len(input)
  /\ LET st == LoopBody(Locals, input[i]) IN
       /\ tokens' = st.tokens
       /\ current' = st.current
       /\ inSingleQuote' = st.inSingleQuote
       /\ inDoubleQuote' = st.inDoubleQuote
       /\ isEscaped' = st.isEscaped
       /\ IF st.ret # NoResult
            THEN pc' = "done" /\ result' = st.ret /\ i' = i
            ELSE pc' = "scan" /\ result' = result /\ i' = i + 1
  /\ UNCHANGED <<round, first, input>>
  /\ UNCHANGED <<routerVars, argsVars, hostVars>>

\* Loop exit and the statements that follow the loop.
Finish ==
  /\ pc = "scan"
  /\ i > Len(input)
  /\ LET st == AfterLoop(Locals) IN
       /\ tokens' = st.tokens
       /\ result' = st.ret
  /\ pc' = "done"
  /\ UNCHANGED <<round, first, input, i, current, inSingleQuote, inDoubleQuote, isEscaped>>
  /\ UNCHANGED <<routerVars, argsVars, hostVars>>

\* The locals at the first iteration.
InitialLocals == [tokens |-> <<>>, current |-> <<>>, inSingleQuote |-> FALSE,
                  inDoubleQuote |-> FALSE, isEscaped |-> FALSE, ret |-> NoResult]

\* The loop over input[lo..hi], left to right, from the locals and index in
\* `run`; the range is split in halves to keep the evaluation shallow.  The
\* loop stops at an early return, leaving i at the character that caused it.
RECURSIVE ScanRange(_, _, _, _)
ScanRange(run, s, lo, hi) ==
  IF lo > hi \/ run.locals.ret # NoResult THEN run
  ELSE IF lo = hi
    THEN LET st == LoopBody(run.locals, s[lo])
         IN [locals |-> st, i |-> IF st.ret # NoResult THEN lo ELSE lo + 1]
  ELSE ScanRange(ScanRange(run, s, lo, (lo + hi) \div 2), s, ((lo + hi) \div 2) + 1, hi)

\* tokenize(s) from entry to return: the final locals (ret is the value
\* returned) and the final index.
tokenize(s) ==
  IF ExceedsCommandLength(s)
    THEN [locals |-> [InitialLocals EXCEPT !.ret = CommandTooLong], i |-> 1]
    ELSE LET run == ScanRange([locals |-> InitialLocals, i |-> 1], s, 1, Len(s))
         IN IF run.locals.ret # NoResult
              THEN run
              ELSE [locals |-> AfterLoop(run.locals), i |-> run.i]

\* A whole call of tokenize in one step.
Tokenize(Inputs) ==
  /\ pc = "idle"
  /\ \E s \in Inputs :
       LET run == tokenize(s) IN
         /\ input' = s
         /\ i' = run.i
         /\ tokens' = run.locals.tokens
         /\ current' = run.locals.current
         /\ inSingleQuote' = run.locals.inSingleQuote
         /\ inDoubleQuote' = run.locals.inDoubleQuote
         /\ isEscaped' = run.locals.isEscaped
         /\ result' = run.locals.ret
  /\ pc' = "done"
  /\ UNCHANGED <<round, first>>
  /\ UNCHANGED <<routerVars, argsVars, hostVars>>

\* The caller joins the returned tokens with single spaces and tokenizes again.
Retokenize ==
  /\ pc = "done"
  /\ round = 1
  /\ result.ok
  /\ first' = result
  /\ round' = 2
  /\ Enter(Join(result.value, <<" ">>))
  /\ UNCHANGED <<routerVars, argsVars, hostVars>>

\* ---------------------------------------------------------------------------
\* Command registry
\*
\* A CommandRegistry is a plain object whose own keys are command names and
\* whose values are CommandDefinitions, each with an optional `subcommands`
\* registry.  The tree is written by its paths: `commands` is the set of paths
\* of the declared commands and `withSubcommands` the commands that carry a
\* `subcommands` object (possibly an empty one).  A position in the tree,
\* (Sub-)registry, is [defined, at]: the registry found at path `at`, or
\* `undefined`.
\* ---------------------------------------------------------------------------
A == <<"a">>
B == <<"b">>
C == <<"c">>
Z == <<"z">>
Dash == <<"-">>
DashDashX == <<"-", "-", "x">>
DashDashHelp == <<"-", "-", "h", "e", "l", "p">>

\* The name of a property every plain object inherits from Object.prototype.
ConstructorKey == <<"c", "o", "n", "s", "t", "r", "u", "c", "t", "o", "r">>

ObjectPrototypeKeys == {ConstructorKey}

\* a -> b -> c, each with a handler
RegistryABC ==
  [commands |-> {<<A>>, <<A, B>>, <<A, B, C>>},
   withSubcommands |-> {<<A>>, <<A, B>>}]

\* the same name at two levels, siblings, and a leaf
RegistryMixed ==
  [commands |-> {<<A>>, <<B>>, <<A, A>>, <<A, B>>},
   withSubcommands |-> {<<A>>}]

\* `subcommands: {}` on a, and a host command whose name begins with '-'
RegistryDash ==
  [commands |-> {<<A>>, <<DashDashX>>, <<C>>, <<C, DashDashX>>, <<C, B>>},
   withSubcommands |-> {<<A>>, <<C>>}]

Registries == {RegistryABC, RegistryMixed, RegistryDash}

Root == [defined |-> TRUE, at |-> <<>>]

UndefinedRegistry == [defined |-> FALSE, at |-> <<>>]

\* token.startsWith('-')
StartsWithDash(token) == Len(token) > 0 /\ token[1] = "-"

\* `reg[token]` is an own property: a declared command
OwnCommand(reg, cur, token) == cur.defined /\ Append(cur.at, token) \in reg.commands

\* `reg[token]` is found on the prototype chain of the plain object
InheritedProperty(reg, cur, token) ==
  cur.defined /\ ~OwnCommand(reg, cur, token) /\ token \in ObjectPrototypeKeys

\* truthiness of `currentRegistry?.[token]`
HasProperty(reg, cur, token) == OwnCommand(reg, cur, token) \/ InheritedProperty(reg, cur, token)

\* `currentRegistry[token].subcommands`
SubcommandsOf(reg, cur, token) ==
  IF OwnCommand(reg, cur, token) /\ Append(cur.at, token) \in reg.withSubcommands
    THEN [defined |-> TRUE, at |-> Append(cur.at, token)]
    ELSE UndefinedRegistry

\* The loop of extractCommandPath from index k with the path matched so far.
RECURSIVE ExtractFrom(_, _, _, _, _)
ExtractFrom(reg, toks, k, cur, path) ==
  IF k > Len(toks) THEN [path |-> path, rest |-> SubSeq(toks, k, Len(toks))]
  ELSE IF StartsWithDash(toks[k]) THEN [path |-> path, rest |-> SubSeq(toks, k, Len(toks))]
  ELSE IF HasProperty(reg, cur, toks[k])
    THEN ExtractFrom(reg, toks, k + 1, SubcommandsOf(reg, cur, toks[k]), Append(path, toks[k]))
  ELSE [path |-> path, rest |-> SubSeq(toks, k, Len(toks))]

extractCommandPath(reg, toks) == ExtractFrom(reg, toks, 1, Root, <<>>)

\* A value of findCommand: null, the definition of the command declared at
\* path `at`, or the object inherited from Object.prototype under the last
\* name of `at`.
Null == [kind |-> "null", at |-> <<>>]

CommandAt(path) == [kind |-> "command", at |-> path]

InheritedAt(path) == [kind |-> "inherited", at |-> path]

\* `registry[name]` and `current.subcommands[name]`: a plain property read
\* of the object `cur`
PropertyRead(reg, cur, name) ==
  IF OwnCommand(reg, cur, name) THEN CommandAt(Append(cur.at, name))
  ELSE IF InheritedProperty(reg, cur, name) THEN InheritedAt(Append(cur.at, name))
  ELSE Null

\* `current.subcommands`
SubcommandsOfNode(reg, node) ==
  IF node.kind = "command" /\ node.at \in reg.withSubcommands
    THEN [defined |-> TRUE, at |-> node.at]
    ELSE UndefinedRegistry

\* The loop of findCommand from index k with the node `current`.
RECURSIVE FindFrom(_, _, _, _)
FindFrom(reg, path, k, node) ==
  IF k > Len(path) THEN node
  ELSE IF ~SubcommandsOfNode(reg, node).defined THEN node
  ELSE LET next == PropertyRead(reg, SubcommandsOfNode(reg, node), path[k])
       IN IF next.kind = "null" THEN node
          ELSE FindFrom(reg, path, k + 1, next)

findCommand(reg, path) ==
  IF Len(path) = 0 THEN Null
  ELSE LET firstNode == PropertyRead(reg, Root, path[1])
       IN IF firstNode.kind = "null" THEN Null
          ELSE FindFrom(reg, path, 2, firstNode)

\* ---------------------------------------------------------------------------
\* Inputs of the router
\* ---------------------------------------------------------------------------
MaxTokens == 3

TokenVocabulary == {A, B, C, Z, Dash, DashDashX, DashDashHelp, ConstructorKey}

TokenLists == StringsUpTo(TokenVocabulary, MaxTokens)

NoExtract == [path |-> <<>>, rest |-> <<>>]

RouterIdle ==
  /\ registry = RegistryABC
  /\ cmdTokens = <<>>
  /\ rpc = "idle"
  /\ extracted = NoExtract
  /\ found = Null

RouterInit ==
  /\ registry \in Registries
  /\ cmdTokens \in TokenLists
  /\ rpc = "ready"
  /\ extracted = NoExtract
  /\ found = Null

ExtractCommandPath ==
  /\ rpc = "ready"
  /\ extracted' = extractCommandPath(registry, cmdTokens)
  /\ rpc' = "returned"
  /\ UNCHANGED <<registry, cmdTokens, found>>
  /\ UNCHANGED <<tokVars, argsVars, hostVars>>

FindCommand ==
  /\ rpc = "ready"
  /\ found' = findCommand(registry, cmdTokens)
  /\ rpc' = "found"
  /\ UNCHANGED <<registry, cmdTokens, extracted>>
  /\ UNCHANGED <<tokVars, argsVars, hostVars>>

\* ---------------------------------------------------------------------------
\* Values of the argument parser
\* ---------------------------------------------------------------------------
\* A JavaScript value: t is its type as the validator classifies it
\* ("undefined", "string", "number", "nan", "boolean", "array", "bigint",
\* "date"; "invalid_date" is a Date object that holds no time); s, n, b, a
\* hold the string, the number (for a date its time), the boolean, the array
\* of strings; e holds the elements of an array whose elements were converted.
Undefined == [t |-> "undefined", s |-> <<>>, n |-> 0, b |-> FALSE, a |-> <<>>, e |-> <<>>]

Str(s) == [t |-> "string", s |-> s, n |-> 0, b |-> FALSE, a |-> <<>>, e |-> <<>>]

Num(n) == [t |-> "number", s |-> <<>>, n |-> n, b |-> FALSE, a |-> <<>>, e |-> <<>>]

NaN == [t |-> "nan", s |-> <<>>, n |-> 0, b |-> FALSE, a |-> <<>>, e |-> <<>>]

Bool(b) == [t |-> "boolean", s |-> <<>>, n |-> 0, b |-> b, a |-> <<>>, e |-> <<>>]

Arr(a) == [t |-> "array", s |-> <<>>, n |-> 0, b |-> FALSE, a |-> a, e |-> <<>>]

BigIntValue(n) == [t |-> "bigint", s |-> <<>>, n |-> n, b |-> FALSE, a |-> <<>>, e |-> <<>>]

DateValue(time) == [t |-> "date", s |-> <<>>, n |-> time, b |-> FALSE, a |-> <<>>, e |-> <<>>]

InvalidDate == [t |-> "invalid_date", s |-> <<>>, n |-> 0, b |-> FALSE, a |-> <<>>, e |-> <<>>]

\* an array of values that are not all strings
ArrOf(elements) == [t |-> "array", s |-> <<>>, n |-> 0, b |-> FALSE, a |-> <<>>, e |-> elements]

\* the elements of an array value
Elements(v) == IF v.e # <<>> THEN v.e ELSE [k \in 1..Len(v.a) |-> Str(v.a[k])]

\* `rawValues[name]`
Get(raw, name) == IF name \in DOMAIN raw THEN raw[name] ELSE Undefined

\* `rawValues[name] = value`
Set(raw, name, value) ==
  [k \in DOMAIN raw \cup {name} |-> IF k = name THEN value ELSE raw[k]]

\* the object literal `{}`
EmptyObject == [k \in {} |-> Undefined]

\* ---------------------------------------------------------------------------
\* Strings
\* ---------------------------------------------------------------------------
\* s.startsWith(prefix)
StartsWith(s, prefix) == Len(s) >= Len(prefix) /\ SubSeq(s, 1, Len(prefix)) = prefix

\* s.slice(from), 0-based
Slice(s, from) == SubSeq(s, from + 1, Len(s))

\* s.slice(from, to), 0-based, to exclusive
Slice2(s, from, to) == SubSeq(s, from + 1, to)

\* s.indexOf(char, from), 0-based, -1 when absent
IndexOf(s, char, from) ==
  IF \E k \in (from + 1)..Len(s) : s[k] = char
    THEN (CHOOSE k \in (from + 1)..Len(s) :
            s[k] = char /\ \A l \in (from + 1)..(k - 1) : s[l] # char) - 1
    ELSE -1

\* key.replace(/-/g, '_')
ReplaceHyphens(s) == IF s = <<>> THEN <<>> ELSE [k \in 1..Len(s) |-> IF s[k] = "-" THEN "_" ELSE s[k]]

DigitValue == [c \in {"0", "1", "2", "3", "4", "5", "6", "7", "8", "9"} |->
  CASE c = "0" -> 0 [] c = "1" -> 1 [] c = "2" -> 2 [] c = "3" -> 3 [] c = "4" -> 4
    [] c = "5" -> 5 [] c = "6" -> 6 [] c = "7" -> 7 [] c = "8" -> 8 [] c = "9" -> 9]

RECURSIVE DigitsValue(_)
DigitsValue(s) ==
  IF s = <<>> THEN 0 ELSE 10 * DigitsValue(SubSeq(s, 1, Len(s) - 1)) + DigitValue[s[Len(s)]]

IsDigits(s) == Len(s) > 0 /\ \A k \in 1..Len(s) : s[k] \in DOMAIN DigitValue

\* Number(s) for a string: the empty string is 0, a decimal integer with an
\* optional sign is its value, any other text of this model is NaN
StringToNumber(s) ==
  IF s = <<>> THEN Num(0)
  ELSE IF IsDigits(s) THEN Num(DigitsValue(s))
  ELSE IF s[1] = "-" /\ IsDigits(Slice(s, 1)) THEN Num(0 - DigitsValue(Slice(s, 1)))
  ELSE IF s[1] = "+" /\ IsDigits(Slice(s, 1)) THEN Num(DigitsValue(Slice(s, 1)))
  ELSE NaN

\* Number(v)
ToNumber(v) ==
  CASE v.t = "undefined" -> NaN
    [] v.t = "string" -> StringToNumber(v.s)
    [] v.t = "boolean" -> IF v.b THEN Num(1) ELSE Num(0)
    [] v.t = "array" -> IF v.a = <<>> THEN Num(0)
                        ELSE IF Len(v.a) = 1 THEN StringToNumber(v.a[1])
                        ELSE NaN
    [] OTHER -> v

\* ---------------------------------------------------------------------------
\* Argument schemas
\* ---------------------------------------------------------------------------
\* A validator: the innermost type (kind, whether it coerces its input
\* itself as z.coerce does, and for an array the kind of its elements) with
\* its ZodDefault / ZodOptional wrappers.
ZString == [kind |-> "string", coerce |-> FALSE, hasDefault |-> FALSE, default |-> Undefined, optional |-> FALSE, element |-> ""]

ZCoerceNumber == [kind |-> "number", coerce |-> TRUE, hasDefault |-> FALSE, default |-> Undefined, optional |-> FALSE, element |-> ""]

ZBoolean == [kind |-> "boolean", coerce |-> FALSE, hasDefault |-> FALSE, default |-> Undefined, optional |-> FALSE, element |-> ""]

\* z.array(element): element is the kind of the elements
ZArrayOf(element) == [kind |-> "array", coerce |-> FALSE, hasDefault |-> FALSE, default |-> Undefined, optional |-> FALSE, element |-> element]

ZArrayOfString == ZArrayOf("string")

ZNumber == [kind |-> "number", coerce |-> FALSE, hasDefault |-> FALSE, default |-> Undefined, optional |-> FALSE, element |-> ""]

ZBigInt == [kind |-> "bigint", coerce |-> FALSE, hasDefault |-> FALSE, default |-> Undefined, optional |-> FALSE, element |-> ""]

ZDate == [kind |-> "date", coerce |-> FALSE, hasDefault |-> FALSE, default |-> Undefined, optional |-> FALSE, element |-> ""]

\* schema.optional()
Optional(schema) == [schema EXCEPT !.optional = TRUE]

\* schema.default(value)
Default(schema, value) == [schema EXCEPT !.hasDefault = TRUE, !.default = value]

\* `x.schema` of a value x that has no such property
UndefinedSchema == [kind |-> "undefined", coerce |-> FALSE, hasDefault |-> FALSE, default |-> Undefined, optional |-> FALSE, element |-> ""]

\* ArgMeta: positional is -1 and short is "" when not given
Meta(positional, short) == [positional |-> positional, short |-> short]

NoMeta == Meta(-1, "")

\* one entry `name: arg(schema, meta)` of an ArgsDefinition
arg(name, schema, meta) == [defined |-> TRUE, name |-> name, schema |-> schema, meta |-> meta]

\* the value of a property inherited from Object.prototype: truthy, with no
\* `schema` and no `meta`
InheritedArg(name) == [defined |-> TRUE, name |-> name, schema |-> UndefinedSchema, meta |-> NoMeta]

UndefinedArg == [defined |-> FALSE, name |-> <<>>, schema |-> UndefinedSchema, meta |-> NoMeta]

\* unwrapSchema(schema) instanceof z.ZodBoolean
isBooleanSchema(schema) == schema.kind = "boolean"

hasDefault(schema) == schema.hasDefault

isFlagSchemaNoDefault(schema) == isBooleanSchema(schema) /\ ~hasDefault(schema)

isFlagSchema(schema) == isBooleanSchema(schema) /\ hasDefault(schema)

isArraySchema(schema) == schema.kind = "array"

\* `argDefs[name]`: a plain property read of the object literal
ArgDefRead(defs, name) ==
  IF \E k \in 1..Len(defs) : defs[k].name = name
    THEN defs[CHOOSE k \in 1..Len(defs) : defs[k].name = name]
  ELSE IF name \in ObjectPrototypeKeys THEN InheritedArg(name)
  ELSE UndefinedArg

\* the first entry, in declaration order, whose meta.short is shortKey
findArgByShortKey(defs, shortKey) ==
  IF \E k \in 1..Len(defs) : defs[k].meta.short = shortKey
    THEN defs[CHOOSE k \in 1..Len(defs) :
                /\ defs[k].meta.short = shortKey
                /\ \A l \in 1..(k - 1) : defs[l].meta.short # shortKey]
    ELSE UndefinedArg

PositionalArgShifted(defs, pos) ==
  IF \E k \in 1..Len(defs) : defs[k].meta.positional = pos - 1
    THEN defs[CHOOSE k \in 1..Len(defs) : defs[k].meta.positional = pos - 1]
    ELSE UndefinedArg

\* positionalArgs.get(pos): the last entry declared with that index
PositionalArg(defs, pos) ==
  IF \E k \in 1..Len(defs) : defs[k].meta.positional = pos
    THEN defs[CHOOSE k \in 1..Len(defs) :
                /\ defs[k].meta.positional = pos
                /\ \A l \in (k + 1)..Len(defs) : defs[l].meta.positional # pos]
    ELSE UndefinedArg

\* ---------------------------------------------------------------------------
\* Results of parseArgs
\* ---------------------------------------------------------------------------
\* A message: its fixed text, the option or field it names, and for a
\* validator issue the expected and the received type.
Message(text, subject) == [text |-> text, subject |-> subject, expected |-> "", received |-> ""]

NoHint == [text |-> "", subject |-> <<>>]

errorWithHint(code, message, hint) == [ok |-> FALSE, code |-> code, message |-> message, hint |-> hint]

NotParsed == errorWithHint("NONE", Message("not returned", <<>>), NoHint)

UnknownLongOption(key) ==
  errorWithHint("VALIDATION_ERROR", Message("Unknown option", <<"-", "-">> \o key),
                [text |-> "Check available options with help command", subject |-> <<>>])

OnlyBooleanFlags(negatedKey) ==
  errorWithHint("VALIDATION_ERROR",
                Message("can only be used with boolean flags", <<"-", "-", "n", "o", "-">> \o negatedKey),
                NoHint)

LongRequiresValue(key) ==
  errorWithHint("VALIDATION_ERROR", Message("requires a value", <<"-", "-">> \o key), NoHint)

UnknownShortOption(shortKey) ==
  errorWithHint("VALIDATION_ERROR", Message("Unknown option", <<"-", shortKey>>), NoHint)

ShortRequiresValue(shortKey) ==
  errorWithHint("VALIDATION_ERROR", Message("requires a value", <<"-", shortKey>>), NoHint)

\* ---------------------------------------------------------------------------
\* parseArgs: the scan of the tokens
\* ---------------------------------------------------------------------------
\* The locals of the scan: rawValues, positionalValues, the index i of the
\* token being processed, and the value returned from inside the loop, if any.
ScanLocals(raw, positionals, k) ==
  [rawValues |-> raw, positionalValues |-> positionals, i |-> k,
   returned |-> FALSE, ret |-> NotParsed]

\* return { ok: false, error } from inside the loop
Return(st, err) == [st EXCEPT !.returned = TRUE, !.ret = err]

setArgValueOverwrite(raw, name, value, schema) ==
  IF isArraySchema(schema) THEN Set(raw, name, Arr(<<value>>))
  ELSE Set(raw, name, Str(value))

setArgValue(raw, name, value, schema) ==
  IF isArraySchema(schema)
    THEN LET existing == Get(raw, name)
         IN IF existing.t = "array"
              THEN Set(raw, name, Arr(Append(existing.a, value)))
              ELSE Set(raw, name, Arr(<<value>>))
    ELSE Set(raw, name, Str(value))

IsEndOfOptionsNever(token) == FALSE

\* token === '--'
IsEndOfOptions(token) == token = <<"-", "-">>

\* lines 36-41: every later token becomes a positional value, and break
EndOfOptions(toks, st) ==
  [st EXCEPT !.positionalValues = st.positionalValues \o SubSeq(toks, st.i + 1, Len(toks)),
             !.i = Len(toks)]

\* lines 53-71: `--no-<key>` when `--no-<key>` itself names no field; the
\* result is the scan state, or `fallThrough` for the code after the block
Negation(defs, st, key, hasInline) ==
  LET negatedKey == Slice(key, 3)
      negatedArgName == ReplaceHyphens(negatedKey)
      negatedSchema == ArgDefRead(defs, negatedArgName)
  IN IF StartsWith(key, <<"n", "o", "-">>) /\ Len(key) > 3 /\ ~hasInline
       THEN IF negatedSchema.defined /\ isBooleanSchema(negatedSchema.schema)
              THEN [fallThrough |-> FALSE,
                    st |-> [st EXCEPT !.rawValues = Set(st.rawValues, negatedArgName, Bool(FALSE))]]
            ELSE IF negatedSchema.defined
              THEN [fallThrough |-> FALSE, st |-> Return(st, OnlyBooleanFlags(negatedKey))]
            ELSE [fallThrough |-> TRUE, st |-> st]
       ELSE [fallThrough |-> TRUE, st |-> st]

\* lines 43-98: a token that starts with '--'
LongOption(defs, toks, st) ==
  LET token == toks[st.i]
      eqIdx == IndexOf(token, "=", 2)
      key == IF eqIdx = -1 THEN Slice(token, 2) ELSE Slice2(token, 2, eqIdx)
      hasInline == eqIdx # -1
      inlineValue == Slice(token, eqIdx + 1)
      argName == ReplaceHyphens(key)
      argSchema == ArgDefRead(defs, argName)
  IN IF ~argSchema.defined
       THEN LET negation == Negation(defs, st, key, hasInline)
            IN IF negation.fallThrough THEN Return(st, UnknownLongOption(key))
               ELSE negation.st
     ELSE IF isFlagSchema(argSchema.schema)
       THEN [st EXCEPT !.rawValues = Set(st.rawValues, argName, Bool(TRUE))]
     ELSE IF hasInline
       THEN [st EXCEPT !.rawValues = setArgValue(st.rawValues, argName, inlineValue, argSchema.schema)]
     ELSE IF st.i + 1 > Len(toks)
       THEN Return([st EXCEPT !.i = st.i + 1], LongRequiresValue(key))
     ELSE [st EXCEPT !.i = st.i + 1,
                     !.rawValues = setArgValue(st.rawValues, argName, toks[st.i + 1], argSchema.schema)]

AttachedValueVerbatim(remaining) == remaining

\* remaining.startsWith('=') ? remaining.slice(1) : remaining
AttachedValue(remaining) ==
  IF StartsWith(remaining, <<"=">>) THEN Slice(remaining, 1) ELSE remaining

\* lines 103-139: the characters of a short-option cluster from index ci
\* (1-based)
RECURSIVE ShortOptions(_, _, _, _, _)
ShortOptions(defs, toks, st, chars, ci) ==
  IF ci > Len(chars) THEN st
  ELSE LET shortKey == chars[ci]
           foundArg == findArgByShortKey(defs, shortKey)
           remaining == Slice(chars, ci)
       IN IF ~foundArg.defined THEN Return(st, UnknownShortOption(shortKey))
          ELSE IF isFlagSchema(foundArg.schema)
            THEN ShortOptions(defs, toks,
                   [st EXCEPT !.rawValues = Set(st.rawValues, foundArg.name, Bool(TRUE))],
                   chars, ci + 1)
          ELSE IF Len(remaining) > 0
            THEN [st EXCEPT !.rawValues =
                    setArgValue(st.rawValues, foundArg.name, AttachedValue(remaining), foundArg.schema)]
          ELSE IF st.i + 1 > Len(toks)
            THEN Return([st EXCEPT !.i = st.i + 1], ShortRequiresValue(shortKey))
          ELSE [st EXCEPT !.i = st.i + 1,
                          !.rawValues = setArgValue(st.rawValues, foundArg.name, toks[st.i + 1], foundArg.schema)]

\* token.startsWith('-') && !token.startsWith('--') && token.length >= 2
IsShortCluster(token) ==
  StartsWith(token, <<"-">>) /\ ~StartsWith(token, <<"-", "-">>) /\ Len(token) >= 2

\* One iteration of the loop at lines 32-144, the increment of i included.
ScanToken(defs, toks, st) ==
  LET token == toks[st.i]
      after ==
        IF IsEndOfOptions(token) THEN EndOfOptions(toks, st)
        ELSE IF StartsWith(token, <<"-", "-">>) THEN LongOption(defs, toks, st)
        ELSE IF IsShortCluster(token) THEN ShortOptions(defs, toks, st, Slice(token, 1), 1)
        ELSE [st EXCEPT !.positionalValues = Append(st.positionalValues, token)]
  IN IF after.returned THEN after ELSE [after EXCEPT !.i = after.i + 1]

\* ---------------------------------------------------------------------------
\* parseArgs: positional assignment and validation
\* ---------------------------------------------------------------------------
IsUnsetPositionalAlways(raw, argInfo) == argInfo.defined

\* argInfo && rawValues[argInfo.name] === undefined
IsUnsetPositional(raw, argInfo) ==
  argInfo.defined /\ Get(raw, argInfo.name).t = "undefined"

\* lines 147-152, from position pos (0-based)
RECURSIVE AssignPositionals(_, _, _, _)
AssignPositionals(defs, raw, positionals, pos) ==
  IF pos >= Len(positionals) THEN raw
  ELSE LET argInfo == PositionalArg(defs, pos)
       IN AssignPositionals(defs,
            IF IsUnsetPositional(raw, argInfo)
              THEN Set(raw, argInfo.name, Str(positionals[pos + 1]))
              ELSE raw,
            positionals, pos + 1)

\* The outcome of one validator on one value: the parsed value, or the
\* first issue: its code, the expected and the received type, and the index
\* of the array element it is about (-1 for the value itself).
Valid(value) ==
  [success |-> TRUE, data |-> value, code |-> "", expected |-> "", received |-> "", index |-> -1]

InvalidType(expected, received) ==
  [success |-> FALSE, data |-> Undefined, code |-> "invalid_type",
   expected |-> expected, received |-> received, index |-> -1]

InvalidDateIssue ==
  [success |-> FALSE, data |-> Undefined, code |-> "invalid_date",
   expected |-> "", received |-> "", index |-> -1]

\* a validator of a scalar kind on a value that it does not coerce: a Date
\* object without a time is of type date and is rejected as invalid_date
ParseScalar(kind, data) ==
  IF data.t = kind THEN Valid(data)
  ELSE IF data.t = "invalid_date"
    THEN (IF kind = "date" THEN InvalidDateIssue ELSE InvalidType(kind, "date"))
  ELSE InvalidType(kind, data.t)

\* z.array(element) on an array: the first element that its validator
\* rejects gives the issue, with the index of the element in its path
ParseElements(schema, data) ==
  LET elements == Elements(data)
      bad == {k \in 1..Len(elements) : ~ParseScalar(schema.element, elements[k]).success}
  IN IF bad = {} THEN Valid(data)
     ELSE LET k == CHOOSE j \in bad : \A l \in bad : j <= l
          IN [ParseScalar(schema.element, elements[k]) EXCEPT !.index = k - 1]

\* the innermost validator: a coercing number validator applies Number() to
\* its input, whatever it is, before looking at its type
ParseInner(schema, value) ==
  LET data == IF schema.kind = "number" /\ schema.coerce THEN ToNumber(value) ELSE value
  IN IF schema.kind = "array" /\ data.t = "array" THEN ParseElements(schema, data)
     ELSE ParseScalar(schema.kind, data)

\* ZodDefault and ZodOptional answer for an undefined input themselves
ParseSchema(schema, value) ==
  IF value.t = "undefined" /\ schema.hasDefault THEN Valid(schema.default)
  ELSE IF value.t = "undefined" /\ schema.optional THEN Valid(Undefined)
  ELSE ParseInner(schema, value)

FieldNames(defs) == {defs[k].name : k \in 1..Len(defs)}

FieldNamed(defs, name) == defs[CHOOSE k \in 1..Len(defs) : defs[k].name = name]

\* z.object(schemaShape).safeParse(rawValues): the fields are validated in
\* declaration order, keys that are no field are dropped
Issues(defs, raw) ==
  {k \in 1..Len(defs) : ~ParseSchema(defs[k].schema, Get(raw, defs[k].name)).success}

ParsedData(defs, raw) ==
  [name \in FieldNames(defs) |->
     ParseSchema(FieldNamed(defs, name).schema, Get(raw, name)).data]

Success(value) == [ok |-> TRUE, value |-> value]

ProvideHint(path) == [text |-> "Provide --<path> <value>", subject |-> path]

\* lines 170-174
HintFor(issue, path) ==
  IF issue.code = "invalid_type" /\ issue.received = "undefined"
    THEN ProvideHint(path) ELSE NoHint

\* firstIssue.path.join('.')
IssuePath(name, issue) ==
  IF issue.index = -1 THEN name
  ELSE name \o <<".">> \o <<CHOOSE c \in DOMAIN DigitValue : DigitValue[c] = issue.index>>

\* lines 155-182
Validate(defs, raw) ==
  IF Issues(defs, raw) = {} THEN Success(ParsedData(defs, raw))
  ELSE LET k == CHOOSE j \in Issues(defs, raw) : \A l \in Issues(defs, raw) : j <= l
           firstIssue == ParseSchema(defs[k].schema, Get(raw, defs[k].name))
           path == IssuePath(defs[k].name, firstIssue)
       IN errorWithHint("VALIDATION_ERROR",
            [text |-> "Invalid value for", subject |-> path,
             expected |-> firstIssue.expected, received |-> firstIssue.received],
            HintFor(firstIssue, path))

\* lines 146-182: what parseArgs does after the loop
AfterScan(defs, st) ==
  Validate(defs, AssignPositionals(defs, st.rawValues, st.positionalValues, 0))

\* the loop from the scan state st to its end
RECURSIVE ScanAll(_, _, _)
ScanAll(defs, toks, st) ==
  IF st.returned \/ st.i > Len(toks) THEN st
  ELSE ScanAll(defs, toks, ScanToken(defs, toks, st))

parseArgs(toks, defs) ==
  LET st == ScanAll(defs, toks, ScanLocals(EmptyObject, <<>>, 1))
  IN IF st.returned THEN st.ret ELSE AfterScan(defs, st)

\* ---------------------------------------------------------------------------
\* parseArgs with pre-conversion (the later version of the parser)
\* ---------------------------------------------------------------------------
\* The outcome of an expression that may throw: whether it threw, and its
\* value when it did not.
Returned(value) == [threw |-> FALSE, value |-> value]

Threw == [threw |-> TRUE, value |-> Undefined]

\* BigInt(s): the empty string is 0n, a decimal integer with an optional sign
\* is its value, any other text of this model throws a SyntaxError
BigIntOf(s) ==
  IF s = <<>> THEN Returned(BigIntValue(0))
  ELSE IF IsDigits(s) THEN Returned(BigIntValue(DigitsValue(s)))
  ELSE IF s[1] = "-" /\ IsDigits(Slice(s, 1)) THEN Returned(BigIntValue(0 - DigitsValue(Slice(s, 1))))
  ELSE IF s[1] = "+" /\ IsDigits(Slice(s, 1)) THEN Returned(BigIntValue(DigitsValue(Slice(s, 1))))
  ELSE Threw

\* new Date(s), for the texts of this model: a four-digit year is the start
\* of that year (its time is written as the year), a text without a digit
\* is a Date object that holds no time
DateOf(s) ==
  IF IsDigits(s) /\ Len(s) = 4 THEN DateValue(DigitsValue(s)) ELSE InvalidDate

ConvertBigIntUncaught(value) == BigIntOf(value.s)

\* try { BigInt(value) } catch { keep the string }
ConvertBigInt(value) ==
  IF BigIntOf(value.s).threw THEN Returned(value) ELSE BigIntOf(value.s)

\* the conversion of one string to the kind
ConvertString(kind, value) ==
  CASE kind = "number" -> Returned(StringToNumber(value.s))
    [] kind = "bigint" -> ConvertBigInt(value)
    [] kind = "date" -> Returned(DateOf(value.s))
    [] OTHER -> Returned(value)

\* lines 633-666: the conversion of the raw value of one field
CoerceValue(schema, value) ==
  IF value.t = "string" THEN ConvertString(schema.kind, value)
  ELSE IF value.t = "array" /\ schema.kind = "array"
            /\ schema.element \in {"number", "bigint", "date"}
    THEN LET elements == Elements(value)
             converted == [k \in 1..Len(elements) |->
                             IF elements[k].t = "string"
                               THEN ConvertString(schema.element, elements[k])
                               ELSE Returned(elements[k])]
         IN IF \E k \in 1..Len(elements) : converted[k].threw THEN Threw
            ELSE Returned(ArrOf([k \in 1..Len(elements) |-> converted[k].value]))
  ELSE Returned(value)

\* coerceRawValues: [threw, raw]
coerceRawValues(raw, defs) ==
  LET converted == [name \in DOMAIN raw |->
                      IF name \in FieldNames(defs)
                        THEN CoerceValue(FieldNamed(defs, name).schema, raw[name])
                        ELSE Returned(raw[name])]
  IN [threw |-> \E name \in DOMAIN raw : converted[name].threw,
      raw |-> [name \in DOMAIN raw |-> converted[name].value]]

UseCoerceHint(expected) == [text |-> "Use z.coerce.<expected>() instead of z.<expected>() in the arg definition", subject |-> <<expected>>]

\* part_013 lines 537-548
HintForCoerced(issue, path) ==
  IF issue.code # "invalid_type" THEN NoHint
  ELSE IF issue.received = "undefined" THEN ProvideHint(path)
  ELSE IF issue.received = "string" /\ issue.expected \in {"number", "bigint", "date"}
    THEN UseCoerceHint(issue.expected)
  ELSE NoHint

\* part_013 lines 521-556
ValidateCoerced(defs, raw) ==
  IF Issues(defs, raw) = {} THEN Success(ParsedData(defs, raw))
  ELSE LET k == CHOOSE j \in Issues(defs, raw) : \A l \in Issues(defs, raw) : j <= l
           firstIssue == ParseSchema(defs[k].schema, Get(raw, defs[k].name))
           path == IssuePath(defs[k].name, firstIssue)
       IN errorWithHint("VALIDATION_ERROR",
            [text |-> "Invalid value for", subject |-> path,
             expected |-> firstIssue.expected, received |-> firstIssue.received],
            HintForCoerced(firstIssue, path))

\* an exception that leaves parseArgs: no value is returned
Uncaught == errorWithHint("UNCAUGHT", Message("SyntaxError", <<>>), NoHint)

\* part_013 lines 510-556: what the later parseArgs does after the loop
AfterScanCoerced(defs, st) ==
  LET coerced == coerceRawValues(AssignPositionals(defs, st.rawValues, st.positionalValues, 0), defs)
  IN IF coerced.threw THEN Uncaught ELSE ValidateCoerced(defs, coerced.raw)

\* ---------------------------------------------------------------------------
\* Inputs of parseArgs
\* ---------------------------------------------------------------------------
MaxArgTokens == 3

Long(name) == <<"-", "-">> \o name

LongInline(name, value) == Long(name) \o <<"=">> \o value

Short(chars) == <<"-">> \o chars

\* long options: a string with a positional index, an array, a flag, a
\* boolean without a default (hyphenated, with a positional index), and a
\* field whose name begins with no_
SchemaLong ==
  << arg(<<"s">>, Optional(ZString), Meta(0, "")),
     arg(<<"t">>, Optional(ZArrayOfString), NoMeta),
     arg(<<"v">>, Default(ZBoolean, Bool(FALSE)), NoMeta),
     arg(<<"d", "_", "r">>, Optional(ZBoolean), Meta(1, "")),
     arg(<<"n", "o", "_", "t">>, Optional(ZString), NoMeta) >>

LongTokens ==
  { A, B, <<"-", "-">>,
    Long(<<"s">>), LongInline(<<"s">>, <<"a", "=", "b">>),
    Long(<<"t">>), LongInline(<<"t">>, B),
    Long(<<"v">>), LongInline(<<"v">>, A),
    Long(<<"d", "-", "r">>),
    Long(<<"n", "o", "-", "v">>), LongInline(<<"n", "o", "-", "v">>, A),
    Long(<<"n", "o", "-", "s">>), Long(<<"n", "o", "-", "t">>),
    Long(<<"n", "o", "-", "d", "-", "r">>),
    Long(Z), Long(<<"n", "o", "-", "z">>),
    Long(ConstructorKey), Long(<<"n", "o", "-">> \o ConstructorKey) }

\* short options: three flags, a boolean without a default, an array and a
\* string with a positional index
SchemaShort ==
  << arg(<<"a", "l", "l">>, Default(ZBoolean, Bool(FALSE)), Meta(-1, "a")),
     arg(<<"b", "i", "g">>, Default(ZBoolean, Bool(FALSE)), Meta(-1, "b")),
     arg(<<"c", "u", "t">>, Default(ZBoolean, Bool(TRUE)), Meta(-1, "c")),
     arg(<<"q">>, Optional(ZBoolean), Meta(-1, "q")),
     arg(<<"t">>, Optional(ZArrayOfString), Meta(-1, "t")),
     arg(<<"s">>, Optional(ZString), Meta(0, "s")) >>

ShortTokens ==
  { Z, Dash, <<"-", "-">>,
    Short(<<"a">>), Short(<<"b">>), Short(<<"c">>),
    Short(<<"a", "b", "c">>), Short(<<"c", "a", "b">>),
    Short(<<"a", "z">>), Short(<<"q">>), Short(<<"q", "a">>),
    Short(<<"t">>), Short(<<"t", "b">>), Short(<<"a", "t", "=", "b">>),
    Short(<<"s", "a", "b">>), Short(<<"b", "s">>),
    LongInline(<<"t">>, A) }

\* two required fields with positional indexes, the first a coerced number,
\* and a flag
SchemaRequired ==
  << arg(<<"n">>, ZCoerceNumber, Meta(0, "n")),
     arg(<<"r">>, ZString, Meta(1, "")),
     arg(<<"v">>, Default(ZBoolean, Bool(FALSE)), Meta(-1, "v")) >>

FalseWord == <<"f", "a", "l", "s", "e">>

RequiredTokens ==
  { <<"5">>, <<"1", "2">>, A, <<"-", "-">>,
    Long(<<"v">>), Short(<<"v">>), Long(<<"n", "o", "-", "v">>),
    LongInline(<<"v">>, FalseWord), LongInline(<<"v">>, <<>>),
    Long(<<"n">>), LongInline(<<"n">>, <<"7">>), LongInline(<<"n">>, <<>>),
    Short(<<"n", "7">>),
    Long(<<"r">>), LongInline(<<"r">>, B) }

\* one required field with a positional index, a coerced number, and a flag
SchemaExample ==
  << arg(<<"n">>, ZCoerceNumber, Meta(0, "n")),
     arg(<<"v">>, Default(ZBoolean, Bool(FALSE)), Meta(-1, "v")) >>

Schemas == {SchemaLong, SchemaShort, SchemaRequired, SchemaExample}

TokensFor(defs) ==
  IF defs = SchemaLong THEN LongTokens
  ELSE IF defs = SchemaShort THEN ShortTokens
  ELSE RequiredTokens

ArgTokenLists(defs) == StringsUpTo(TokensFor(defs), MaxArgTokens)

\* ---------------------------------------------------------------------------
\* The parseArgs call, one loop iteration per step
\* ---------------------------------------------------------------------------
ArgsIdle ==
  /\ argDefs = <<>>
  /\ argTokens = <<>>
  /\ apc = "idle"
  /\ ai = 1
  /\ rawValues = EmptyObject
  /\ positionalValues = <<>>
  /\ parsed = NotParsed

ArgsInit ==
  /\ argDefs \in Schemas
  /\ argTokens \in ArgTokenLists(argDefs)
  /\ apc = "scan"
  /\ ai = 1
  /\ rawValues = EmptyObject
  /\ positionalValues = <<>>
  /\ parsed = NotParsed

\* one iteration of the loop, or the return from inside it
ScanStep ==
  /\ apc = "scan"
  /\ ai <= Len(argTokens)
  /\ LET st == ScanToken(argDefs, argTokens, ScanLocals(rawValues, positionalValues, ai))
     IN /\ rawValues' = st.rawValues
        /\ positionalValues' = st.positionalValues
        /\ ai' = st.i
        /\ parsed' = st.ret
        /\ apc' = IF st.returned THEN "done" ELSE "scan"
  /\ UNCHANGED <<argDefs, argTokens>>
  /\ UNCHANGED <<tokVars, routerVars, hostVars>>

\* the code after the loop
FinishScan ==
  /\ apc = "scan"
  /\ ai > Len(argTokens)
  /\ rawValues' = AssignPositionals(argDefs, rawValues, positionalValues, 0)
  /\ parsed' = AfterScan(argDefs, ScanLocals(rawValues, positionalValues, ai))
  /\ apc' = "done"
  /\ UNCHANGED <<argDefs, argTokens, ai, positionalValues>>
  /\ UNCHANGED <<tokVars, routerVars, hostVars>>

\* ---------------------------------------------------------------------------
\* Calls of tokenize and of the later parseArgs, one at a time
\* ---------------------------------------------------------------------------
MaxCoerceTokens == 3

\* fields of the kinds that are converted before validation, and arrays of
\* them
SchemaCoerce ==
  << arg(<<"n">>, Optional(ZNumber), Meta(0, "")),
     arg(<<"g">>, Optional(ZBigInt), NoMeta),
     arg(<<"d">>, Optional(ZDate), NoMeta),
     arg(<<"l">>, Optional(ZArrayOf("bigint")), NoMeta),
     arg(<<"m">>, Optional(ZArrayOf("number")), NoMeta),
     arg(<<"s">>, ZString, NoMeta) >>

CoerceTokens ==
  { <<"7">>, A,
    LongInline(<<"n">>, <<"5">>), LongInline(<<"n">>, A),
    LongInline(<<"g">>, <<"1", "2">>), LongInline(<<"g">>, A),
    LongInline(<<"d">>, <<"2", "0", "2", "4">>), LongInline(<<"d">>, A),
    LongInline(<<"l">>, <<"5">>), LongInline(<<"l">>, A),
    LongInline(<<"m">>, <<"5">>), LongInline(<<"m">>, A),
    LongInline(<<"s">>, A), Long(Z) }

CoerceSchemas == {SchemaCoerce}

\* a call of parseArgs when no call is in progress
CallParseArgs ==
  /\ apc = "idle"
  /\ pc = "idle"
  /\ argDefs' \in CoerceSchemas
  /\ argTokens' \in StringsUpTo(CoerceTokens, MaxCoerceTokens)
  /\ apc' = "scan"
  /\ UNCHANGED <<ai, rawValues, positionalValues, parsed>>
  /\ UNCHANGED <<tokVars, routerVars, hostVars>>

\* the code after the loop, in the later version
FinishScanCoerced ==
  /\ apc = "scan"
  /\ ai > Len(argTokens)
  /\ LET assigned == AssignPositionals(argDefs, rawValues, positionalValues, 0)
     IN rawValues' = IF coerceRawValues(assigned, argDefs).threw THEN assigned
                     ELSE coerceRawValues(assigned, argDefs).raw
  /\ parsed' = AfterScanCoerced(argDefs, ScanLocals(rawValues, positionalValues, ai))
  /\ apc' = "done"
  /\ UNCHANGED <<argDefs, argTokens, ai, positionalValues>>
  /\ UNCHANGED <<tokVars, routerVars, hostVars>>

\* a call of tokenize when no call is in progress
CallTokenize ==
  /\ apc = "idle"
  /\ Tokenize(ScanInputs \cup LimitInputs)

\* ---------------------------------------------------------------------------
\* executeCommand
\*
\* A registry for executeCommand also says which commands carry a `handler`
\* (withHandler) and the `args` of each command (<<>> where none is declared).
\* ---------------------------------------------------------------------------
Invocations == {1, 2}

\* a: a group; a b: a handler with arguments; c: a leaf without a handler;
\* z: `subcommands: {}` and no handler
RegistryGroup ==
  [commands |-> {<<A>>, <<A, B>>, <<C>>, <<Z>>},
   withSubcommands |-> {<<A>>, <<Z>>},
   withHandler |-> {<<A, B>>},
   args |-> [p \in {<<A>>, <<A, B>>, <<C>>, <<Z>>} |-> IF p = <<A, B>> THEN SchemaExample ELSE <<>>]]

\* a: a handler with arguments and subcommands; a b: a handler without arguments
RegistryBoth ==
  [commands |-> {<<A>>, <<A, B>>},
   withSubcommands |-> {<<A>>},
   withHandler |-> {<<A>>, <<A, B>>},
   args |-> [p \in {<<A>>, <<A, B>>} |-> IF p = <<A>> THEN SchemaExample ELSE <<>>]]

ExecRegistries == {RegistryGroup, RegistryBoth}

\* `commandDef.handler`, truthy or not
HasHandler(reg, node) == node.kind = "command" /\ node.at \in reg.withHandler

HasSubcommandsNever(reg, node) == FALSE

\* `commandDef.subcommands`, truthy or not
HasSubcommands(reg, node) == SubcommandsOfNode(reg, node).defined

\* `commandDef.args || {}`
ArgsOf(reg, node) == IF node.kind = "command" THEN reg.args[node.at] ELSE <<>>

HelpWord == <<"h", "e", "l", "p">>
SchemaWord == <<"s", "c", "h", "e", "m", "a">>
VersionWord == <<"v", "e", "r", "s", "i", "o", "n">>
DashH == <<"-", "h">>
DashV == <<"-", "v">>
DashDashVersion == <<"-", "-">> \o VersionWord

\* handleHelp(registry, args): the root help, or the help of findCommand(registry, args)
handleHelp(reg, args) ==
  [kind |-> "help", args |-> args, def |-> IF Len(args) = 0 THEN Null ELSE findCommand(reg, args)]

\* handleSchema(registry, args)
handleSchema(reg, args) ==
  [kind |-> "schema", args |-> args, def |-> IF Len(args) = 0 THEN Null ELSE findCommand(reg, args)]

handleVersion == [kind |-> "version", args |-> <<>>, def |-> Null]

\* what the handler of the command at `path` resolves with
Handled(path, args) == [kind |-> "handled", args |-> path, def |-> CommandAt(path), value |-> args]

ExecuteResult(res, isError) == [result |-> res, isError |-> isError]

NotExecuted == ExecuteResult(NoResult, FALSE)

EmptyCommand ==
  errorWithHint("PARSE_ERROR", Message("Empty command", <<>>),
                [text |-> "Run 'help' for available commands", subject |-> <<>>])

\* the `examples` of the response are not part of the model
CommandNotFound(name) ==
  errorWithHint("COMMAND_NOT_FOUND", Message("Command not found", name),
                [text |-> "Run 'help' for available commands", subject |-> <<>>])

PathNotFound(path) ==
  errorWithHint("COMMAND_NOT_FOUND", Message("Command not found", Join(path, <<" ">>)), NoHint)

RequiresSubcommand(path) ==
  errorWithHint("VALIDATION_ERROR", Message("requires a subcommand", Join(path, <<" ">>)),
                [text |-> "Run 'help <path>' for available subcommands", subject |-> Join(path, <<" ">>)])

HasNoHandler(path) ==
  errorWithHint("EXECUTION_ERROR", Message("has no handler", Join(path, <<" ">>)), NoHint)

CommandFailed == errorWithHint("EXECUTION_ERROR", Message("Command failed", <<>>), NoHint)

\* tokens.findIndex((t) => t === '--help' || t === '-h'), 1-based, 0 when there is none
RECURSIVE FindIndexFrom(_, _, _)
FindIndexFrom(toks, wanted, k) ==
  IF k > Len(toks) THEN 0
  ELSE IF toks[k] \in wanted THEN k
  ELSE FindIndexFrom(toks, wanted, k + 1)

helpFlagIndexNone(toks) == 0

helpFlagIndex(toks) == FindIndexFrom(toks, {DashDashHelp, DashH}, 1)

\* tokens.includes('--version') || tokens.includes('-v')
HasVersionFlag(toks) == \E k \in 1..Len(toks) : toks[k] \in {DashDashVersion, DashV}

\* The locals of executeCommand where it returns or reaches the await of the
\* handler: `returned` is the value returned, `invoked` says that the handler
\* has been called instead and is awaited.
ExecLocals(tokenResult, toks, ex, node, defs, argsResult, invoked, returned) ==
  [tokenResult |-> tokenResult, tokens |-> toks, extracted |-> ex, found |-> node,
   argDefs |-> defs, argsResult |-> argsResult, invoked |-> invoked, returned |-> returned]

Returns(tokenResult, toks, ex, node, defs, argsResult, res, isError) ==
  ExecLocals(tokenResult, toks, ex, node, defs, argsResult, FALSE, ExecuteResult(res, isError))

\* executeCommand from the validation of the arguments: `argsResult` is
\* parseArgs(extracted.rest, argDefs)
RouteArgs(tokenResult, toks, ex, node, defs, argsResult) ==
  IF ~argsResult.ok
    THEN Returns(tokenResult, toks, ex, node, defs, argsResult, argsResult, TRUE)
    ELSE ExecLocals(tokenResult, toks, ex, node, defs, argsResult, TRUE, NotExecuted)

\* executeCommand from the checks of the command found: `node` is
\* findCommand(commands, extracted.path)
RouteFound(reg, tokenResult, toks, ex, node) ==
  IF node.kind = "null"
    THEN Returns(tokenResult, toks, ex, node, <<>>, NotParsed, PathNotFound(ex.path), TRUE)
  ELSE IF ~HasHandler(reg, node)
    THEN IF HasSubcommands(reg, node)
           THEN Returns(tokenResult, toks, ex, node, <<>>, NotParsed, RequiresSubcommand(ex.path), TRUE)
           ELSE Returns(tokenResult, toks, ex, node, <<>>, NotParsed, HasNoHandler(ex.path), TRUE)
  ELSE RouteArgs(tokenResult, toks, ex, node, ArgsOf(reg, node), parseArgs(ex.rest, ArgsOf(reg, node)))

\* executeCommand from the check of the extracted path: `ex` is
\* extractCommandPath(commands, tokens)
RoutePath(reg, tokenResult, toks, ex) ==
  IF Len(ex.path) = 0
    THEN Returns(tokenResult, toks, ex, Null, <<>>, NotParsed, CommandNotFound(toks[1]), TRUE)
    ELSE RouteFound(reg, tokenResult, toks, ex, findCommand(reg, ex.path))

\* the part of executeCommand after the built-in commands and flags
Route(reg, tokenResult, toks) == RoutePath(reg, tokenResult, toks, extractCommandPath(reg, toks))

\* the check for --version or -v and what follows it
VersionFlagOrRoute(reg, tokenResult, toks) ==
  IF HasVersionFlag(toks)
    THEN Returns(tokenResult, toks, NoExtract, Null, <<>>, NotParsed, handleVersion, FALSE)
    ELSE Route(reg, tokenResult, toks)

\* the check for --help or -h and what follows it
HelpFlagOrLater(reg, tokenResult, toks) ==
  IF helpFlagIndex(toks) # 0
    THEN Returns(tokenResult, toks, NoExtract, Null, <<>>, NotParsed,
                 handleHelp(reg, SubSeq(toks, 1, helpFlagIndex(toks) - 1)), FALSE)
    ELSE VersionFlagOrRoute(reg, tokenResult, toks)

\* the built-in commands and what follows them
BuiltinOrLater(reg, tokenResult, toks) ==
  IF toks[1] = HelpWord
    THEN Returns(tokenResult, toks, NoExtract, Null, <<>>, NotParsed, handleHelp(reg, Tail(toks)), FALSE)
  ELSE IF toks[1] = SchemaWord
    THEN Returns(tokenResult, toks, NoExtract, Null, <<>>, NotParsed, handleSchema(reg, Tail(toks)), FALSE)
  ELSE IF toks[1] = VersionWord
    THEN Returns(tokenResult, toks, NoExtract, Null, <<>>, NotParsed, handleVersion, FALSE)
  ELSE HelpFlagOrLater(reg, tokenResult, toks)

\* executeCommand(command, commands) up to its return or to the await of the handler
executeCommand(cmd, reg) ==
  LET tokenResult == tokenize(cmd).locals.ret
  IN IF ~tokenResult.ok
       THEN Returns(tokenResult, <<>>, NoExtract, Null, <<>>, NotParsed, tokenResult, TRUE)
     ELSE IF Len(tokenResult.value) = 0
       THEN Returns(tokenResult, <<>>, NoExtract, Null, <<>>, NotParsed, EmptyCommand, TRUE)
     ELSE BuiltinOrLater(reg, tokenResult, tokenResult.value)

\* executeCommand after the handler has settled
AfterHandler(path, args, outcome) ==
  IF outcome = "resolved" THEN ExecuteResult(Handled(path, args), FALSE)
  ELSE ExecuteResult(CommandFailed, TRUE)

HandlerOutcomes == {"resolved", "rejected"}

\* ---------------------------------------------------------------------------
\* Inputs of executeCommand
\* ---------------------------------------------------------------------------
MaxExecTokens == 3

ExecTokens ==
  { A, B, C, Z, ConstructorKey, <<"5">>, <<"-", "-">>,
    Long(<<"v">>), DashV, Short(<<"v", "v">>), DashH, DashDashHelp, DashDashVersion,
    HelpWord, SchemaWord, VersionWord }

\* an unclosed quote, and white space only
RawCommands == { <<"'", "a">>, <<" ">> }

ExecCommands == {Join(toks, <<" ">>) : toks \in StringsUpTo(ExecTokens, MaxExecTokens)} \cup RawCommands

\* ---------------------------------------------------------------------------
\* The executeCommand call: the part before the await, and the part after it
\* ---------------------------------------------------------------------------
ExecIdle ==
  /\ epc = [k \in Invocations |-> "idle"]
  /\ command = [k \in Invocations |-> <<>>]
  /\ execResult = [k \in Invocations |-> NotExecuted]
  /\ handlerCalls = <<>>

RegistryAfterUnregistering(reg, toks) == [reg EXCEPT !.withHandler = {}]

\* The registry after the call.  tokenize, extractCommandPath, findCommand,
\* listCommands and parseArgs read the registry, its nodes and their `args`
\* (property reads, Object.entries, safeParse) and assign to none of them.
RegistryAfter(reg, toks) == reg

HandlerCall(k, path, args) == [id |-> k, path |-> path, args |-> args]

\* invocation k runs executeCommand(cmd, registry) up to its return or its await
StartExecuteWith(k, cmd, run) ==
     /\ command' = [command EXCEPT ![k] = cmd]
     /\ input' = cmd
     /\ result' = run.tokenResult
     /\ cmdTokens' = run.tokens
     /\ extracted' = run.extracted
     /\ found' = run.found
     /\ argDefs' = run.argDefs
     /\ argTokens' = IF run.argsResult = NotParsed THEN <<>> ELSE run.extracted.rest
     /\ parsed' = run.argsResult
     /\ epc' = [epc EXCEPT ![k] = IF run.invoked THEN "awaiting" ELSE "done"]
     /\ execResult' = [execResult EXCEPT ![k] = run.returned]
     /\ handlerCalls' = IF run.invoked
                          THEN Append(handlerCalls, HandlerCall(k, run.found.at, run.argsResult.value))
                          ELSE handlerCalls
     /\ registry' = RegistryAfter(registry, run.tokens)
     /\ rpc' = rpc
     /\ UNCHANGED <<pc, round, first, i, tokens, current, inSingleQuote, inDoubleQuote, isEscaped>>
     /\ UNCHANGED <<apc, ai, rawValues, positionalValues>>

StartExecute(k, cmd) == StartExecuteWith(k, cmd, executeCommand(cmd, registry))

\* the handler call that invocation k awaits
RECURSIVE AwaitedFrom(_, _)
AwaitedFrom(k, n) ==
  IF handlerCalls[n].id = k THEN handlerCalls[n] ELSE AwaitedFrom(k, n - 1)

Awaited(k) == AwaitedFrom(k, Len(handlerCalls))

\* the handler of invocation k settles and executeCommand returns
FinishExecute(k, outcome) ==
  /\ epc' = [epc EXCEPT ![k] = "done"]
  /\ execResult' = [execResult EXCEPT ![k] = AfterHandler(Awaited(k).path, Awaited(k).args, outcome)]
  /\ UNCHANGED <<command, handlerCalls>>
  /\ UNCHANGED <<tokVars, routerVars, argsVars>>

ExecuteCommand(k, Commands) ==
  /\ epc[k] = "idle"
  /\ \E cmd \in Commands : StartExecute(k, cmd)
  /\ UNCHANGED replVars

HandlerSettles(k) ==
  /\ epc[k] = "awaiting"
  /\ \E outcome \in HandlerOutcomes : FinishExecute(k, outcome)
  /\ UNCHANGED replVars

\* ---------------------------------------------------------------------------
\* Concurrent invocations on one registry
\* ---------------------------------------------------------------------------
MaxSharedTokens == 2

SharedTokens == {A, B, C, <<"5">>, Long(<<"v">>)}

SharedCommands == {Join(toks, <<" ">>) : toks \in StringsUpTo(SharedTokens, MaxSharedTokens)}

ExecInit ==
  /\ registry \in ExecRegistries
  /\ cmdTokens = <<>>
  /\ rpc = "idle"
  /\ extracted = NoExtract
  /\ found = Null

\* ---------------------------------------------------------------------------
\* The REPL
\*
\* startRepl reads lines from the input stream.  A step of the model is what
\* runs without interruption: the listener of a 'line' or 'close' event, or
\* the code between two awaits of processQueue / processLine.  A continuation
\* whose promise is already settled (lpc "resume" or "print") is a microtask:
\* it runs before the end of the input stream is handled, but not before the
\* other lines of the chunk that is being read.
\* ---------------------------------------------------------------------------
RECURSIVE TrimStart(_)
TrimStart(s) ==
  IF Len(s) > 0 /\ IsWhitespace(s[1]) THEN TrimStart(Tail(s)) ELSE s

RECURSIVE TrimEnd(_)
TrimEnd(s) ==
  IF Len(s) > 0 /\ IsWhitespace(s[Len(s)]) THEN TrimEnd(SubSeq(s, 1, Len(s) - 1)) ELSE s

\* line.trim()
Trim(s) == TrimEnd(TrimStart(s))

ExitWord == <<"e", "x", "i", "t">>
DotExit == <<".">> \o ExitWord
DotClear == <<".", "c", "l", "e", "a", "r">>

\* trimmed === '.exit' || trimmed === 'exit'
IsExitLine(line) == Trim(line) \in {DotExit, ExitWord}

\* a line processLine hands to executeCommand
IsCommandLine(line) == Trim(line) \notin {<<>>, DotExit, ExitWord, DotClear}

\* what console.log writes: 'Bye!', or the result of the command of a line
Bye == [text |-> "Bye!", command |-> <<>>, result |-> NotExecuted]

Output(cmd, res) == [text |-> "result", command |-> cmd, result |-> res]

ReplIdle ==
  /\ stdin = <<>>
  /\ arrived = <<>>
  /\ queue = <<>>
  /\ processing = FALSE
  /\ exiting = FALSE
  /\ lpc = "none"
  /\ active = 0
  /\ started = <<>>
  /\ printed = <<>>
  /\ exited = FALSE

\* processLine from its call of executeCommand, whose run to its return or to
\* the await of the handler is `run`, up to the await of that call
runCommand(cmd, run, out, act) ==
  /\ StartExecuteWith(1, cmd, run)
  /\ lpc' = IF run.invoked THEN "handler" ELSE "print"
  /\ printed' = out
  /\ active' = act + 1
  /\ UNCHANGED <<exiting, exited>>

\* processLine(line) up to its return or its first await, with `out` written
\* and `act` calls of processLine in progress before it
processLine(line, out, act) ==
  IF Trim(line) = <<>> \/ Trim(line) = DotClear
    THEN /\ lpc' = "resume"
         /\ printed' = out
         /\ active' = act
         /\ UNCHANGED <<exiting, exited>>
         /\ UNCHANGED <<execVars, tokVars, routerVars, argsVars>>
  ELSE IF IsExitLine(line)
    THEN /\ printed' = Append(out, Bye)
         /\ exiting' = TRUE
         /\ exited' = TRUE
         /\ lpc' = "none"
         /\ active' = act
         /\ UNCHANGED <<execVars, tokVars, routerVars, argsVars>>
  ELSE runCommand(Trim(line), executeCommand(Trim(line), registry), out, act)

\* the loop of processQueue from its head to the next await, or to its end
Loop(q, out, act) ==
  IF Len(q) > 0 /\ ~exiting
    THEN /\ queue' = Tail(q)
         /\ started' = Append(started, Head(q))
         /\ processing' = TRUE
         /\ processLine(Head(q), out, act)
    ELSE /\ queue' = q
         /\ processing' = FALSE
         /\ lpc' = "none"
         /\ printed' = out
         /\ active' = act
         /\ UNCHANGED <<started, exiting, exited>>
         /\ UNCHANGED <<execVars, tokVars, routerVars, argsVars>>

AlreadyProcessingNever == FALSE

\* `if (processing) return`
AlreadyProcessing == processing

\* rl.on('line'): queue.push(line); processQueue()
LineEvent ==
  /\ ~exited
  /\ Len(stdin) > 0
  /\ stdin' = Tail(stdin)
  /\ arrived' = Append(arrived, Head(stdin))
  /\ IF AlreadyProcessing
       THEN /\ queue' = Append(queue, Head(stdin))
            /\ UNCHANGED <<processing, exiting, lpc, active, started, printed, exited>>
            /\ UNCHANGED <<execVars, tokVars, routerVars, argsVars>>
       ELSE Loop(Append(queue, Head(stdin)), printed, active)

\* processLine prints the result of executeCommand and returns, or has
\* returned; processQueue goes on with its loop
Continue ==
  /\ ~exited
  /\ lpc \in {"resume", "print"}
  /\ UNCHANGED <<stdin, arrived>>
  /\ Loop(queue,
          IF lpc = "print" THEN Append(printed, Output(command[1], execResult[1])) ELSE printed,
          IF lpc = "print" THEN active - 1 ELSE active)

\* the handler that executeCommand awaits settles
HandlerSettled ==
  /\ ~exited
  /\ lpc = "handler"
  /\ \E outcome \in HandlerOutcomes : FinishExecute(1, outcome)
  /\ lpc' = "print"
  /\ UNCHANGED <<stdin, arrived, queue, processing, exiting, active, started, printed, exited>>

\* rl.on('close') at the end of the input stream: process.exit(0)
CloseEvent ==
  /\ ~exited
  /\ Len(stdin) = 0
  /\ lpc \notin {"resume", "print"}
  /\ exited' = TRUE
  /\ UNCHANGED <<stdin, arrived, queue, processing, exiting, lpc, active, started, printed>>
  /\ UNCHANGED <<execVars, tokVars, routerVars, argsVars>>

\* ---------------------------------------------------------------------------
\* Inputs of the REPL
\* ---------------------------------------------------------------------------
MaxLines == 3

\* an empty line, the two exit lines (one to be trimmed), .clear, a command
\* with a handler and a command that fails
ReplLines ==
  { <<>>, ExitWord, <<" ">> \o DotExit, DotClear, Join(<<A, B>>, <<" ">>), A }

ReplInit ==
  /\ stdin \in StringsUpTo(ReplLines, MaxLines)
  /\ arrived = <<>>
  /\ queue = <<>>
  /\ processing = FALSE
  /\ exiting = FALSE
  /\ lpc = "none"
  /\ active = 0
  /\ started = <<>>
  /\ printed = <<>>
  /\ exited = FALSE

ReplRegistry ==
  /\ registry = RegistryBoth
  /\ cmdTokens = <<>>
  /\ rpc = "idle"
  /\ extracted = NoExtract
  /\ found = Null

\* ---------------------------------------------------------------------------
\* Specifications
\* ---------------------------------------------------------------------------
\* tokenize on short inputs and on inputs around the token-count limit,
\* followed by a second call on the re-joined result
Init == TokInit /\ RouterIdle /\ ArgsIdle /\ ExecIdle /\ ReplIdle

Next == Call(ScanInputs) \/ Step \/ Finish \/ Retokenize

Spec == Init /\ [][Next]_vars

\* whole calls of tokenize on inputs around the command-length and
\* token-count limits
NextLimits == Tokenize(LimitInputs)

SpecLimits == Init /\ [][NextLimits]_vars

\* extractCommandPath and findCommand on every registry and token list
InitRouter == TokInit /\ RouterInit /\ ArgsIdle /\ ExecIdle /\ ReplIdle

NextRouter == ExtractCommandPath \/ FindCommand

SpecRouter == InitRouter /\ [][NextRouter]_vars

\* parseArgs on every schema and token list
InitArgs == TokInit /\ RouterIdle /\ ArgsInit /\ ExecIdle /\ ReplIdle

NextArgs == ScanStep \/ FinishScan

SpecArgs == InitArgs /\ [][NextArgs]_vars

\* one call of executeCommand on every registry and command
InitExecute == TokInit /\ ExecInit /\ ArgsIdle /\ ExecIdle /\ ReplIdle

NextExecute == ExecuteCommand(1, ExecCommands) \/ HandlerSettles(1)

SpecExecute == InitExecute /\ [][NextExecute]_vars

\* two invocations of executeCommand on one registry; an invocation that
\* awaits its handler lets the other one run
NextShared == \E k \in Invocations : ExecuteCommand(k, SharedCommands) \/ HandlerSettles(k)

SpecShared == InitExecute /\ [][NextShared]_vars

\* the REPL on every script of lines
InitRepl == TokInit /\ ReplRegistry /\ ArgsIdle /\ ExecIdle /\ ReplInit

NextRepl == LineEvent \/ Continue \/ HandlerSettled \/ CloseEvent

SpecRepl == InitRepl /\ [][NextRepl]_vars

\* calls of tokenize and of the later parseArgs; both are synchronous, so a
\* call begins only when no other is in progress
NextCalls == CallTokenize \/ CallParseArgs \/ ScanStep \/ FinishScanCoerced

SpecCalls == Init /\ [][NextCalls]_vars

\* ---------------------------------------------------------------------------
\* Properties of tokenize
\* ---------------------------------------------------------------------------
\* the loop is about to process the character input[i]
Scanning == pc = "scan" /\ i <= Len(input)

QuotesUnchanged == inSingleQuote' = inSingleQuote /\ inDoubleQuote' = inDoubleQuote

Contains(s, chars) == \E k \in 1..Len(s) : s[k] \in chars

\* C1: for an input of at most MAX_COMMAND_LENGTH characters tokenize fails if
\* and only if a quote span is open at end of input or more than MAX_ARGS
\* tokens were produced; an unclosed quote yields PARSE_ERROR; a shell
\* metacharacter never ends the call and is appended to the current token.
C1_Outcome ==
  pc = "done" /\ Len(input) <= MAX_COMMAND_LENGTH =>
    /\ (~result.ok) <=> (inSingleQuote \/ inDoubleQuote \/ Len(tokens) > MAX_ARGS)
    /\ (inSingleQuote \/ inDoubleQuote) => ~result.ok /\ result.code = "PARSE_ERROR"

C1_MetaIsLiteral ==
  Scanning /\ input[i] \in ShellMeta =>
    pc' = "scan" /\ current' = Append(current, input[i]) /\ tokens' = tokens

C1_FailsIffUnclosedOrTooMany == [](C1_Outcome) /\ [][C1_MetaIsLiteral]_vars

C1_Witness == pc = "done" /\ result = UnclosedDouble /\ Contains(current, ShellMeta)

\* C2: an input of exactly MAX_COMMAND_LENGTH characters is not rejected for
\* its length (MAX_COMMAND_LENGTH times 'x' succeeds); every longer input is
\* rejected with the command-length error before any character is scanned.
C2_LengthLimit ==
  /\ pc # "idle" /\ Len(input) <= MAX_COMMAND_LENGTH => result # CommandTooLong
  /\ pc # "idle" /\ Len(input) > MAX_COMMAND_LENGTH =>
       pc = "done" /\ result = CommandTooLong /\ i = 1 /\ tokens = <<>> /\ current = <<>>
  /\ pc = "done" /\ input = Fill("x", MAX_COMMAND_LENGTH) => result.ok

C2_Witness == pc = "done" /\ Len(input) = MAX_COMMAND_LENGTH /\ result.ok

\* C3: MAX_ARGS words separated by single spaces give exactly MAX_ARGS tokens,
\* MAX_ARGS + 1 words give the count-limit error, and every successful result
\* has at most MAX_ARGS tokens of at most MAX_ARG_LENGTH characters each.
C3_CountLimit ==
  pc = "done" =>
    /\ input = Words(MAX_ARGS) => result = Ok([k \in 1..MAX_ARGS |-> <<"a">>])
    /\ input = Words(MAX_ARGS + 1) => result = TooManyArgs
    /\ result.ok =>
         /\ Len(result.value) <= MAX_ARGS
         /\ \A k \in 1..Len(result.value) : Len(result.value[k]) <= MAX_ARG_LENGTH

C3_Witness ==
  pc = "done" /\ input = Words(MAX_ARGS) /\ result.ok /\ Len(result.value) = MAX_ARGS

\* C4 (as claimed): once the scan has completed more than MAX_ARGS tokens the
\* count-limit error is what tokenize reports, whatever follows in the input.
C4_CountErrorWhenTokenCompleted ==
  pc = "done" /\ Len(input) <= MAX_COMMAND_LENGTH /\ Len(tokens) > MAX_ARGS =>
    result = TooManyArgs

\* C4 (amended): the token count is checked once, after the loop and after the
\* unclosed-quote checks: no count error is returned while scanning, and when
\* more than MAX_ARGS tokens were completed the result is the unclosed-quote
\* error if a quote is open at end of input and the count-limit error
\* otherwise.  The token length is checked where a token is completed.
C4_AfterLoopOrder ==
  /\ pc = "scan" => result = NoResult
  /\ pc = "done" /\ result = TooManyArgs => i > Len(input)
  /\ pc = "done" /\ Len(input) <= MAX_COMMAND_LENGTH /\ Len(tokens) > MAX_ARGS =>
       result = IF inSingleQuote THEN UnclosedSingle
                ELSE IF inDoubleQuote THEN UnclosedDouble
                ELSE TooManyArgs

C4_LengthAtCompletion ==
  /\ Scanning /\ input[i] \in WhitespaceChars
  /\ ~inSingleQuote /\ ~inDoubleQuote /\ ~isEscaped
  /\ Len(current) > MAX_ARG_LENGTH
  =>
    pc' = "done" /\ result' = ArgTooLong

C4_CountCheckedAfterLoop == [](C4_AfterLoopOrder) /\ [][C4_LengthAtCompletion]_vars

C4_Witness == pc = "done" /\ Len(tokens) > MAX_ARGS /\ result = UnclosedSingle

\* C5 (as claimed): tokenizing the tokens of a successful call, joined with
\* single spaces, succeeds with the same tokens.
C5_RetokenizeSame == round = 2 /\ pc = "done" => result = first

PlainTokens(ts) ==
  \A k \in 1..Len(ts) : ~Contains(ts[k], WhitespaceChars \cup {"'", "\"", "\\"})

\* C5 (amended): the same, for results none of whose tokens contains a
\* whitespace character, a quote character or a backslash.
C5_RetokenizeSamePlain ==
  round = 2 /\ pc = "done" /\ PlainTokens(first.value) => result = first

C5_Witness ==
  round = 2 /\ pc = "done" /\ PlainTokens(first.value) /\ Len(first.value) >= 2 /\ result = first

\* C6: a quote flag changes only on its own quote character outside the other
\* kind of span; inside a single-quoted span every character but the closing
\* quote is appended to the current token and nothing else changes.
C6_Step ==
  Scanning =>
    /\ inSingleQuote' # inSingleQuote => input[i] = "'" /\ ~inDoubleQuote
    /\ inDoubleQuote' # inDoubleQuote => input[i] = "\"" /\ ~inSingleQuote
    /\ inSingleQuote /\ input[i] # "'" =>
         /\ current' = Append(current, input[i])
         /\ tokens' = tokens
         /\ QuotesUnchanged
         /\ ~isEscaped'
         /\ pc' = "scan"

C6_SingleQuoteVerbatim == [][C6_Step]_vars

C6_Witness == pc = "scan" /\ inSingleQuote /\ current = <<"\\", "\"", " ">>

\* C7: a pending escape exists only outside single quotes; the backslash
\* that starts it is not appended, and the character after it is appended to
\* the current token without opening or closing a span or ending the token.
C7_Step ==
  Scanning =>
    /\ input[i] = "\\" /\ ~inSingleQuote /\ ~isEscaped =>
         isEscaped' /\ current' = current /\ tokens' = tokens /\ QuotesUnchanged
    /\ isEscaped =>
         /\ current' = Append(current, input[i])
         /\ tokens' = tokens
         /\ QuotesUnchanged
         /\ ~isEscaped'
         /\ pc' = "scan"

C7_EscapeOutsideSingleQuotes == [](isEscaped => ~inSingleQuote) /\ [][C7_Step]_vars

C7_Witness == pc = "scan" /\ inDoubleQuote /\ ~isEscaped /\ current = <<"\"", " ">>

\* C8 (as claimed): a whitespace character met outside any quote span is
\* never appended to the current token.
C8_WhitespaceOutsideQuotesDropped ==
  [][Scanning /\ input[i] \in WhitespaceChars /\ ~inSingleQuote /\ ~inDoubleQuote =>
       current' # Append(current, input[i])]_vars

AllWhitespace(s) == \A k \in 1..Len(s) : s[k] \in WhitespaceChars

C8_Separator ==
  Scanning /\ input[i] \in WhitespaceChars /\ ~inSingleQuote /\ ~inDoubleQuote /\ ~isEscaped =>
    /\ current' = <<>>
    /\ tokens' = IF current # <<>> THEN Append(tokens, current) ELSE tokens
    /\ QuotesUnchanged
    /\ ~isEscaped'
    /\ pc' = "scan"

C8_InOrder ==
  pc = "scan" =>
    Len(tokens') >= Len(tokens) /\ SubSeq(tokens', 1, Len(tokens)) = tokens

\* C8 (amended): a whitespace character met outside any quote span and not
\* escaped by a backslash ends the current token if it is non-empty and is
\* itself discarded, so a run of it adds no token; tokens are only ever
\* appended; an empty or all-whitespace input gives the empty list.
C8_UnescapedWhitespaceSeparates ==
  /\ [](pc = "done" /\ AllWhitespace(input) => result = Ok(<<>>))
  /\ [][C8_Separator]_vars
  /\ [][C8_InOrder]_vars

C8_Witness ==
  /\ pc = "done"
  /\ input = <<"a", FullWidthSpace, " ", FullWidthSpace, "a">>
  /\ result = Ok(<<A, A>>)

\* C9 (as claimed): `--name` followed by an empty quoted string is tokenized
\* as the two tokens '--name' and ''.
C9_EmptyQuotedStringIsToken ==
  pc = "done" /\ round = 1 /\ input \in EmptyQuotedInputs =>
    result = Ok(<<NameOption, <<>>>>)

\* ---------------------------------------------------------------------------
\* Properties of extractCommandPath
\* ---------------------------------------------------------------------------
\* the first n tokens are a path of declared commands, none beginning with '-'
IsCommandPrefix(reg, toks, n) ==
  \A k \in 1..n : ~StartsWithDash(toks[k]) /\ SubSeq(toks, 1, k) \in reg.commands

LongestCommandPrefix(reg, toks) ==
  LET n == CHOOSE m \in 0..Len(toks) :
             /\ IsCommandPrefix(reg, toks, m)
             /\ \A l \in (m + 1)..Len(toks) : ~IsCommandPrefix(reg, toks, l)
  IN SubSeq(toks, 1, n)

\* C10 (as claimed): path followed by rest is the token list, and path is the
\* longest prefix of it made of declared commands, each the child of the one
\* before, none beginning with '-'.
C10_PathIsLongestCommandPrefix ==
  rpc = "returned" =>
    /\ extracted.path \o extracted.rest = cmdTokens
    /\ extracted.path = LongestCommandPrefix(registry, cmdTokens)

\* C11 (as claimed): when the first token is no declared top-level command
\* the path is empty and the remainder is the whole token list; every
\* element of a returned path is a command declared at that level.
C11_PathOnlyOfDeclaredCommands ==
  rpc = "returned" =>
    /\ (cmdTokens = <<>> \/ <<cmdTokens[1]>> \notin registry.commands) =>
          extracted = [path |-> <<>>, rest |-> cmdTokens]
    /\ \A k \in 1..Len(extracted.path) :
          SubSeq(extracted.path, 1, k) \in registry.commands

\* ---------------------------------------------------------------------------
\* Properties of findCommand
\* ---------------------------------------------------------------------------
\* the longest prefix of the path that is a path of declared commands
DeepestDeclared(reg, path) ==
  LET n == CHOOSE m \in 0..Len(path) :
             /\ \A k \in 1..m : SubSeq(path, 1, k) \in reg.commands
             /\ (m < Len(path) => SubSeq(path, 1, m + 1) \notin reg.commands)
  IN SubSeq(path, 1, n)

\* C12 (as claimed): findCommand returns null for an empty path or a first
\* segment that is no top-level command; otherwise it returns the declared
\* command reached by following the segments from the root, stopping at the
\* deepest one matched when a segment has no matching subcommand.
C12_DeepestMatchedNode ==
  rpc = "found" =>
    IF cmdTokens = <<>> \/ <<cmdTokens[1]>> \notin registry.commands
      THEN found = Null
      ELSE found = CommandAt(DeepestDeclared(registry, cmdTokens))

\* ---------------------------------------------------------------------------
\* Properties of parseArgs
\* ---------------------------------------------------------------------------
\* the loop is about to process the token argTokens[ai]
ScanningArgs == apc = "scan" /\ ai <= Len(argTokens)

\* the next step returns a VALIDATION_ERROR whose message has the given text
FailsWith(text) ==
  /\ apc' = "done"
  /\ ~parsed'.ok
  /\ parsed'.code = "VALIDATION_ERROR"
  /\ parsed'.message.text = text

\* the next step gives `value` to the field: as its value, or as the last
\* element of its array
Receives(name, value) ==
  LET now == Get(rawValues', name)
  IN IF FieldNamed(argDefs, name).schema.kind = "array"
       THEN now.t = "array" /\ Len(now.a) > 0 /\ now.a[Len(now.a)] = value
       ELSE now = Str(value)

\* the text of a long option between '--' and the first '=', or the end
LongKey(token) ==
  IF \E k \in 3..Len(token) : token[k] = "="
    THEN SubSeq(token, 3, (CHOOSE k \in 3..Len(token) :
                             token[k] = "=" /\ \A l \in 3..(k - 1) : token[l] # "=") - 1)
    ELSE SubSeq(token, 3, Len(token))

HasInlineValue(token) == \E k \in 3..Len(token) : token[k] = "="

\* the text after the first '=' of a long option
InlineValue(token) == SubSeq(token, Len(LongKey(token)) + 4, Len(token))

IsFlagField(defs, name) ==
  /\ name \in FieldNames(defs)
  /\ FieldNamed(defs, name).schema.kind = "boolean"
  /\ FieldNamed(defs, name).schema.hasDefault

\* `--no-<key>` without inline value, <key> not empty
IsNegationForm(token) ==
  /\ Len(LongKey(token)) > 3
  /\ SubSeq(LongKey(token), 1, 3) = <<"n", "o", "-">>
  /\ ~HasInlineValue(token)

NegatedName(token) == ReplaceHyphens(SubSeq(LongKey(token), 4, Len(LongKey(token))))

\* the scan is at a long option, the `--` marker excluded
AtLongOption ==
  /\ ScanningArgs
  /\ Len(argTokens[ai]) > 2
  /\ SubSeq(argTokens[ai], 1, 2) = <<"-", "-">>

\* C13 (as claimed): a long option whose name is no field and that negates
\* no field is an 'Unknown option' error; a flag is set to true and consumes
\* nothing; any other field receives the inline text after the first '=',
\* else the next token, else the result is a 'requires a value' error.
C13_Step ==
  AtLongOption =>
    LET token == argTokens[ai]
        name == ReplaceHyphens(LongKey(token))
    IN IF name \notin FieldNames(argDefs)
         THEN (IsNegationForm(token) /\ NegatedName(token) \in FieldNames(argDefs))
                \/ FailsWith("Unknown option")
       ELSE IF IsFlagField(argDefs, name)
         THEN /\ apc' = "scan"
              /\ ai' = ai + 1
              /\ rawValues' = Set(rawValues, name, Bool(TRUE))
       ELSE IF HasInlineValue(token)
         THEN /\ apc' = "scan"
              /\ ai' = ai + 1
              /\ Receives(name, InlineValue(token))
       ELSE IF ai < Len(argTokens)
         THEN /\ apc' = "scan"
              /\ ai' = ai + 2
              /\ Receives(name, argTokens[ai + 1])
       ELSE FailsWith("requires a value")

C13_LongOption == [][C13_Step]_vars

\* C14: when the scan meets the token `--`, no option is interpreted any
\* more: every later token is appended to the positional candidates,
\* verbatim and in order, whatever it looks like, the raw values stay as they
\* are, no error is returned and the loop is over; with nothing after `--`
\* nothing changes.
C14_Step ==
  (ScanningArgs /\ argTokens[ai] = <<"-", "-">>) =>
    /\ apc' = "scan"
    /\ ai' = Len(argTokens) + 1
    /\ rawValues' = rawValues
    /\ Len(positionalValues') = Len(positionalValues) + (Len(argTokens) - ai)
    /\ \A k \in 1..Len(positionalValues) : positionalValues'[k] = positionalValues[k]
    /\ \A k \in 1..(Len(argTokens) - ai) :
         positionalValues'[Len(positionalValues) + k] = argTokens[ai + k]
    /\ (ai = Len(argTokens) => positionalValues' = positionalValues)

C14_EndOfOptions == [][C14_Step]_vars

C14_Witness ==
  /\ apc = "done"
  /\ argDefs = SchemaLong
  /\ argTokens = <<Long(<<"v">>), <<"-", "-">>, Long(<<"n", "o", "-", "v">>)>>
  /\ positionalValues = <<Long(<<"n", "o", "-", "v">>)>>
  /\ parsed.ok
  /\ parsed.value[<<"v">>] = Bool(TRUE)
  /\ parsed.value[<<"s">>] = Str(Long(<<"n", "o", "-", "v">>))

\* the scan is at a token `--no-<key>`
AtNegationForm == AtLongOption /\ IsNegationForm(argTokens[ai])

\* C15 (as claimed): `--no-<key>` is the ordinary option of a field literally
\* named no_<key> when there is one; otherwise it sets a boolean field <key>
\* to false; otherwise it is the error 'can only be used with boolean flags'
\* when <key> is a non-boolean field; otherwise the error 'Unknown option'.
C15_Step ==
  AtNegationForm =>
    LET token == argTokens[ai]
        literal == ReplaceHyphens(LongKey(token))
        negated == NegatedName(token)
    IN IF literal \in FieldNames(argDefs)
         THEN /\ Get(rawValues', negated) = Get(rawValues, negated)
              /\ IF IsFlagField(argDefs, literal)
                   THEN rawValues' = Set(rawValues, literal, Bool(TRUE)) /\ ai' = ai + 1
                 ELSE IF ai < Len(argTokens)
                   THEN Receives(literal, argTokens[ai + 1]) /\ ai' = ai + 2
                 ELSE FailsWith("requires a value")
       ELSE IF negated \in FieldNames(argDefs) /\ FieldNamed(argDefs, negated).schema.kind = "boolean"
         THEN /\ apc' = "scan"
              /\ ai' = ai + 1
              /\ rawValues' = Set(rawValues, negated, Bool(FALSE))
       ELSE IF negated \in FieldNames(argDefs)
         THEN FailsWith("can only be used with boolean flags")
       ELSE FailsWith("Unknown option")

C15_NegationOrder == [][C15_Step]_vars

\* What each option token of the inputs gives to which field, written out
\* token by token: a value carried by the token itself ...
CarriedValues ==
  { [token |-> LongInline(<<"s">>, <<"a", "=", "b">>), name |-> <<"s">>, value |-> Str(<<"a", "=", "b">>)],
    [token |-> LongInline(<<"t">>, B), name |-> <<"t">>, value |-> Str(B)],
    [token |-> LongInline(<<"t">>, A), name |-> <<"t">>, value |-> Str(A)],
    [token |-> Long(<<"v">>), name |-> <<"v">>, value |-> Bool(TRUE)],
    [token |-> LongInline(<<"v">>, A), name |-> <<"v">>, value |-> Bool(TRUE)],
    [token |-> LongInline(<<"v">>, FalseWord), name |-> <<"v">>, value |-> Bool(TRUE)],
    [token |-> LongInline(<<"v">>, <<>>), name |-> <<"v">>, value |-> Bool(TRUE)],
    [token |-> Short(<<"v">>), name |-> <<"v">>, value |-> Bool(TRUE)],
    [token |-> Long(<<"n", "o", "-", "v">>), name |-> <<"v">>, value |-> Bool(FALSE)],
    [token |-> Long(<<"n", "o", "-", "d", "-", "r">>), name |-> <<"d", "_", "r">>, value |-> Bool(FALSE)],
    [token |-> Short(<<"a">>), name |-> <<"a", "l", "l">>, value |-> Bool(TRUE)],
    [token |-> Short(<<"b">>), name |-> <<"b", "i", "g">>, value |-> Bool(TRUE)],
    [token |-> Short(<<"c">>), name |-> <<"c", "u", "t">>, value |-> Bool(TRUE)],
    [token |-> Short(<<"a", "b", "c">>), name |-> <<"a", "l", "l">>, value |-> Bool(TRUE)],
    [token |-> Short(<<"a", "b", "c">>), name |-> <<"b", "i", "g">>, value |-> Bool(TRUE)],
    [token |-> Short(<<"a", "b", "c">>), name |-> <<"c", "u", "t">>, value |-> Bool(TRUE)],
    [token |-> Short(<<"c", "a", "b">>), name |-> <<"a", "l", "l">>, value |-> Bool(TRUE)],
    [token |-> Short(<<"c", "a", "b">>), name |-> <<"b", "i", "g">>, value |-> Bool(TRUE)],
    [token |-> Short(<<"c", "a", "b">>), name |-> <<"c", "u", "t">>, value |-> Bool(TRUE)],
    [token |-> Short(<<"a", "z">>), name |-> <<"a", "l", "l">>, value |-> Bool(TRUE)],
    [token |-> Short(<<"q", "a">>), name |-> <<"q">>, value |-> Str(A)],
    [token |-> Short(<<"t", "b">>), name |-> <<"t">>, value |-> Str(B)],
    [token |-> Short(<<"a", "t", "=", "b">>), name |-> <<"a", "l", "l">>, value |-> Bool(TRUE)],
    [token |-> Short(<<"a", "t", "=", "b">>), name |-> <<"t">>, value |-> Str(B)],
    [token |-> Short(<<"s", "a", "b">>), name |-> <<"s">>, value |-> Str(<<"a", "b">>)],
    [token |-> Short(<<"b", "s">>), name |-> <<"b", "i", "g">>, value |-> Bool(TRUE)],
    [token |-> LongInline(<<"n">>, <<"7">>), name |-> <<"n">>, value |-> Str(<<"7">>)],
    [token |-> LongInline(<<"n">>, <<>>), name |-> <<"n">>, value |-> Str(<<>>)],
    [token |-> Short(<<"n", "7">>), name |-> <<"n">>, value |-> Str(<<"7">>)],
    [token |-> LongInline(<<"r">>, B), name |-> <<"r">>, value |-> Str(B)] }

\* ... or the token that follows
NextTokenValues ==
  { [token |-> Long(<<"s">>), name |-> <<"s">>],
    [token |-> Long(<<"t">>), name |-> <<"t">>],
    [token |-> Short(<<"t">>), name |-> <<"t">>],
    [token |-> Long(<<"d", "-", "r">>), name |-> <<"d", "_", "r">>],
    [token |-> Long(<<"n", "o", "-", "t">>), name |-> <<"n", "o", "_", "t">>],
    [token |-> Short(<<"q">>), name |-> <<"q">>],
    [token |-> Short(<<"b", "s">>), name |-> <<"s">>],
    [token |-> Long(<<"n">>), name |-> <<"n">>],
    [token |-> Long(<<"r">>), name |-> <<"r">>] }

\* the field `name` has the old value `old` and is given `value`: an array
\* field appends it, any other field is overwritten
Given(name, old, value) ==
  IF FieldNamed(argDefs, name).schema.kind = "array"
    THEN Arr((IF old.t = "array" THEN old.a ELSE <<>>) \o <<value.s>>)
    ELSE value

C16_Step ==
  ScanningArgs =>
    \A name \in FieldNames(argDefs) :
      LET token == argTokens[ai]
          old == Get(rawValues, name)
          new == Get(rawValues', name)
      IN IF \E f \in CarriedValues : f.token = token /\ f.name = name
           THEN new = Given(name, old, (CHOOSE f \in CarriedValues : f.token = token /\ f.name = name).value)
         ELSE IF [token |-> token, name |-> name] \in NextTokenValues /\ ai < Len(argTokens)
           THEN new = Given(name, old, Str(argTokens[ai + 1]))
         ELSE new = old

\* the returned value of a field that the scan has set is the validated raw
\* value
C16_Returned ==
  (apc = "done" /\ parsed.ok) =>
    \A name \in FieldNames(argDefs) :
      LET raw == Get(rawValues, name)
      IN (raw.t \in {"string", "boolean", "array"}
            /\ FieldNamed(argDefs, name).schema.kind # "number")
           => parsed.value[name] = raw

\* C16: every value supplied to an array field, by a long option, an inline
\* `=` or a short form, is appended to the field's array in token order; a
\* value supplied to any other field replaces the earlier one, so that the
\* last occurrence decides, `--x` after `--no-x` (true) and `--no-x` after
\* `--x` (false) included.
C16_RepeatedOptions == [](C16_Returned) /\ [][C16_Step]_vars

C16_Witness ==
  /\ apc = "done"
  /\ argDefs = SchemaShort
  /\ argTokens = <<LongInline(<<"t">>, A), Short(<<"t", "b">>), Short(<<"a", "t", "=", "b">>)>>
  /\ parsed.ok
  /\ parsed.value[<<"t">>] = Arr(<<A, B, B>>)
  /\ parsed.value[<<"a", "l", "l">>] = Bool(TRUE)

\* the short aliases of the boolean fields, and of the flags among them
BooleanAliases(defs) ==
  {defs[k].meta.short : k \in {j \in 1..Len(defs) : defs[j].schema.kind = "boolean"}} \ {""}

FlagAliases(defs) ==
  {defs[k].meta.short : k \in {j \in 1..Len(defs) :
      defs[j].schema.kind = "boolean" /\ defs[j].schema.hasDefault}} \ {""}

DeclaredAliases(defs) == {defs[k].meta.short : k \in 1..Len(defs)} \ {""}

\* '-' followed by one or more characters of the set
IsClusterOf(token, aliases) ==
  /\ Len(token) >= 2
  /\ token[1] = "-"
  /\ \A k \in 2..Len(token) : token[k] \in aliases

\* -abc as -a -b -c
SplitCluster(token) == [k \in 1..(Len(token) - 1) |-> <<"-", token[k + 1]>>]

FieldOfAlias(defs, shortKey) ==
  defs[CHOOSE k \in 1..Len(defs) : defs[k].meta.short = shortKey].name

\* the call on the single token `-<aliases>` set all of them true and
\* returned the result of the call on the aliases given one by one
StackedLike(aliases) ==
  (apc = "done" /\ Len(argTokens) = 1 /\ IsClusterOf(argTokens[1], aliases)) =>
    /\ \A k \in 2..Len(argTokens[1]) :
         LET name == FieldOfAlias(argDefs, argTokens[1][k])
         IN /\ Get(rawValues, name) = Bool(TRUE)
            /\ parsed.ok => parsed.value[name] = Bool(TRUE)
    /\ parsed = parseArgs(SplitCluster(argTokens[1]), argDefs)

\* the scan is at a cluster in which the character at index k is no declared
\* alias and is preceded only by aliases of the set: the step returns the
\* error that names that character
UnknownAfter(aliases) ==
  \A k \in 2..(IF ScanningArgs THEN Len(argTokens[ai]) ELSE 0) :
    (/\ argTokens[ai][1] = "-"
     /\ argTokens[ai][2] # "-"
     /\ argTokens[ai][k] \notin DeclaredAliases(argDefs)
     /\ \A l \in 2..(k - 1) : argTokens[ai][l] \in aliases)
      => /\ FailsWith("Unknown option")
         /\ parsed'.message.subject = <<"-", argTokens[ai][k]>>

\* C17 (as claimed): the short aliases of boolean fields stack: `-abc` yields
\* all three true, as `-a -b -c` does, in any number and order, and a
\* character that is no declared alias yields the error naming it.
C17_BooleanAliasesStack ==
  [](StackedLike(BooleanAliases(argDefs))) /\ [][UnknownAfter(BooleanAliases(argDefs))]_vars

\* C17 (amended): the short aliases of flags, boolean fields with a default,
\* stack: `-abc` yields all three true, as `-a -b -c` does, in any number and
\* order, and a character that is no declared alias and follows only flag
\* aliases yields the error naming it.
C17_FlagAliasesStack ==
  [](StackedLike(FlagAliases(argDefs))) /\ [][UnknownAfter(FlagAliases(argDefs))]_vars

C17_Witness ==
  /\ apc = "done"
  /\ argDefs = SchemaShort
  /\ argTokens = <<Short(<<"c", "a", "b">>)>>
  /\ parsed.ok
  /\ parsed.value[<<"a", "l", "l">>] = Bool(TRUE)
  /\ parsed.value[<<"b", "i", "g">>] = Bool(TRUE)
  /\ parsed.value[<<"c", "u", "t">>] = Bool(TRUE)
  /\ parsed = parseArgs(<<Short(<<"c">>), Short(<<"a">>), Short(<<"b">>)>>, argDefs)

\* the character at index k of the token is the first alias of the cluster
\* whose field takes a value: it is declared for a field that is no flag,
\* and only flag aliases precede it
FirstValueAlias(defs, token, k) ==
  /\ Len(token) >= 2
  /\ token[1] = "-"
  /\ token[2] # "-"
  /\ k \in 2..Len(token)
  /\ token[k] \in DeclaredAliases(defs) \ FlagAliases(defs)
  /\ \A l \in 2..(k - 1) : token[l] \in FlagAliases(defs)

\* the remainder of the token with one leading '=' removed
WithoutLeadingEquals(rest) ==
  IF Len(rest) > 0 /\ rest[1] = "=" THEN SubSeq(rest, 2, Len(rest)) ELSE rest

C18_Step ==
  \A k \in 2..(IF ScanningArgs THEN Len(argTokens[ai]) ELSE 0) :
    FirstValueAlias(argDefs, argTokens[ai], k) =>
      LET token == argTokens[ai]
          name == FieldOfAlias(argDefs, token[k])
          rest == SubSeq(token, k + 1, Len(token))
          before == {FieldOfAlias(argDefs, token[l]) : l \in 2..(k - 1)}
          untouched == \A other \in FieldNames(argDefs) \ (before \cup {name}) :
                         Get(rawValues', other) = Get(rawValues, other)
      IN IF rest # <<>>
           THEN /\ apc' = "scan"
                /\ ai' = ai + 1
                /\ Receives(name, WithoutLeadingEquals(rest))
                /\ untouched
         ELSE IF ai < Len(argTokens)
           THEN /\ apc' = "scan"
                /\ ai' = ai + 2
                /\ Receives(name, argTokens[ai + 1])
                /\ untouched
         ELSE FailsWith("requires a value")

\* C18: the first alias of a cluster whose field takes a value receives the
\* rest of the token without one leading '=', or the whole next token when
\* nothing is left, or the call fails with 'requires a value' when there is
\* no next token; no later character of the token is read as an alias.
C18_ValueAliasInCluster == [][C18_Step]_vars

C18_Witness ==
  /\ apc = "done"
  /\ argDefs = SchemaShort
  /\ argTokens = <<Short(<<"a", "t", "=", "b">>), Short(<<"s", "a", "b">>)>>
  /\ parsed.ok
  /\ parsed.value[<<"t">>] = Arr(<<B>>)
  /\ parsed.value[<<"s">>] = Str(<<"a", "b">>)
  /\ parsed.value[<<"a", "l", "l">>] = Bool(TRUE)
  /\ parsed.value[<<"b", "i", "g">>] = Bool(FALSE)

\* the loop is over and the code after it is about to run
ScanOver == apc = "scan" /\ ai > Len(argTokens)

\* the positional assignment leaves every field the scan has set as it is,
\* and gives a field the scan has not set the candidate at its index
C19_Step ==
  ScanOver =>
    \A k \in 1..Len(argDefs) :
      LET name == argDefs[k].name
          pos == argDefs[k].meta.positional
          old == Get(rawValues, name)
          new == Get(rawValues', name)
      IN IF old.t # "undefined" THEN new = old
         ELSE IF pos >= 0 /\ pos < Len(positionalValues)
           THEN new = Str(positionalValues[pos + 1])
         ELSE new = old

\* the returned value of a field is the validated raw value
C19_Returned ==
  (apc = "done" /\ parsed.ok) =>
    \A k \in 1..Len(argDefs) :
      LET raw == Get(rawValues, argDefs[k].name)
      IN raw.t # "undefined" =>
           parsed.value[argDefs[k].name] =
             IF argDefs[k].schema.kind = "number" THEN StringToNumber(raw.s) ELSE raw

\* C19: positional candidates are assigned only to fields that no long
\* option, short option or negation has set; a field with a positional index
\* that is also given by name, before or after the positional tokens, keeps
\* the named value.
C19_NamedWinsOverPositional == [](C19_Returned) /\ [][C19_Step]_vars

C19_Witness ==
  /\ apc = "done"
  /\ argDefs = SchemaRequired
  /\ argTokens = <<<<"5">>, LongInline(<<"n">>, <<"7">>), A>>
  /\ positionalValues = <<<<"5">>, A>>
  /\ parsed.ok
  /\ parsed.value[<<"n">>] = Num(7)
  /\ parsed.value[<<"r">>] = Str(A)

\* the field is required: no default, not optional
IsRequired(field) == ~field.schema.hasDefault /\ ~field.schema.optional

\* the validator of the field accepts the raw value
Accepts(field, raw) ==
  CASE raw.t = "undefined" -> ~IsRequired(field)
    [] field.schema.kind = "number" -> raw.t = "string" /\ StringToNumber(raw.s).t = "number"
    [] OTHER -> raw.t = field.schema.kind

\* the call has returned from the code after the loop
Validated == apc = "done" /\ (parsed.ok \/ parsed.message.text = "Invalid value for")

\* the field at index k is required, has no value after the scan and the
\* positional assignment, and every field declared before it is accepted
FirstFailingIsMissing(k) ==
  /\ IsRequired(argDefs[k])
  /\ Get(rawValues, argDefs[k].name).t = "undefined"
  /\ \A l \in 1..(k - 1) : Accepts(argDefs[l], Get(rawValues, argDefs[l].name))

C20_MissingRequired ==
  Validated =>
    \A k \in 1..Len(argDefs) :
      FirstFailingIsMissing(k) =>
        /\ ~parsed.ok
        /\ parsed.code = "VALIDATION_ERROR"
        /\ parsed.message.subject = argDefs[k].name
        /\ parsed.hint = [text |-> "Provide --<path> <value>", subject |-> argDefs[k].name]

C20_Example ==
  (apc = "done" /\ argDefs = SchemaExample /\ argTokens = <<<<"5">>, Long(<<"v">>)>>) =>
    /\ parsed.ok
    /\ parsed.value[<<"n">>] = Num(5)
    /\ parsed.value[<<"v">>] = Bool(TRUE)

\* C20 (as claimed): when a required field has no value after the scan the
\* result is VALIDATION_ERROR for the first failing field in declaration
\* order, its message names the field and its hint is 'Provide --<field>
\* <value>'; ['5', '--verbose'] succeeds with the field coerced to 5 and
\* verbose true.
C20_RequiredFieldHint == C20_MissingRequired /\ C20_Example

\* ---------------------------------------------------------------------------
\* Properties of the calls
\* ---------------------------------------------------------------------------
\* the text is no number, big integer or date
NotConvertible == {A}

\* the call was given only the option `--<name>=<text>` for the field at
\* index k, a field of a converted kind or an array of one, with a text that
\* cannot be converted
GivenNotConvertible(k) ==
  /\ argDefs[k].schema.kind \in {"number", "bigint", "date", "array"}
  /\ argDefs[k].schema.element # "string"
  /\ \E text \in NotConvertible :
       argTokens = <<LongInline(argDefs[k].name, text), LongInline(<<"s">>, A)>>

C21_TokenizeReturns ==
  pc = "done" => (result.ok \/ result.code = "PARSE_ERROR")

C21_ParseArgsReturns ==
  apc = "done" => (parsed.ok \/ parsed.code = "VALIDATION_ERROR")

C21_ConversionLeftToValidation ==
  apc = "done" =>
    \A k \in 1..Len(argDefs) :
      GivenNotConvertible(k) =>
        /\ ~parsed.ok
        /\ parsed.code = "VALIDATION_ERROR"
        /\ parsed.message.text = "Invalid value for"
        /\ SubSeq(parsed.message.subject, 1, Len(argDefs[k].name)) = argDefs[k].name

\* C21: no call of tokenize or parseArgs ends with an exception: a failure
\* of tokenize is returned with code PARSE_ERROR, a failure of parseArgs with
\* code VALIDATION_ERROR, and a text that cannot be converted to the number,
\* big integer or date the field declares is rejected by the validation of
\* that field.
C21_NeverThrows ==
  C21_TokenizeReturns /\ C21_ParseArgsReturns /\ C21_ConversionLeftToValidation

C21_Witness ==
  /\ apc = "done"
  /\ argTokens = <<LongInline(<<"g">>, A), LongInline(<<"s">>, A)>>
  /\ rawValues[<<"g">>] = Str(A)
  /\ ~parsed.ok
  /\ parsed.code = "VALIDATION_ERROR"
  /\ parsed.message.subject = <<"g">>
  /\ parsed.message.received = "string"

\* ---------------------------------------------------------------------------
\* Properties of executeCommand
\* ---------------------------------------------------------------------------
\* the call of executeCommand has returned
Executed == epc[1] = "done"

\* routing has ended on something that carries no handler
RoutedWithoutHandler ==
  /\ found.kind # "null"
  /\ ~(found.kind = "command" /\ found.at \in registry.withHandler)

RoutedToGroup == found.kind = "command" /\ found.at \in registry.withSubcommands

ExecFailsWith(code, text) ==
  /\ execResult[1].isError
  /\ execResult[1].result.code = code
  /\ execResult[1].result.message.text = text

\* C22 (first part): when routing ends on a node without a handler,
\* executeCommand returns VALIDATION_ERROR "'<path>' requires a subcommand"
\* if the node has subcommands and EXECUTION_ERROR "has no handler" otherwise,
\* without parsing the argument tokens and without invoking a handler.
C22_WithoutHandler ==
  (Executed /\ RoutedWithoutHandler) =>
    /\ IF RoutedToGroup
         THEN ExecFailsWith("VALIDATION_ERROR", "requires a subcommand")
         ELSE ExecFailsWith("EXECUTION_ERROR", "has no handler")
    /\ execResult[1].result.message.subject = Join(extracted.path, <<" ">>)
    /\ parsed = NotParsed
    /\ handlerCalls = <<>>

\* C22 (second part): a handler is invoked only after tokenization, routing
\* and parseArgs have succeeded, once, with the map parseArgs returned.
C22_HandlerAfterSuccess ==
  handlerCalls # <<>> =>
    /\ Len(handlerCalls) = 1
    /\ result.ok
    /\ cmdTokens = result.value
    /\ Len(extracted.path) > 0
    /\ found = CommandAt(extracted.path)
    /\ found.at \in registry.withHandler
    /\ argTokens = extracted.rest
    /\ argDefs = registry.args[found.at]
    /\ parsed.ok
    /\ handlerCalls[1].path = found.at
    /\ handlerCalls[1].args = parsed.value

\* C22: a node without a handler fails with the error of its kind, unparsed;
\* a handler runs only after tokenization, routing and parseArgs succeeded
\* and receives the validated argument map.
C22_HandlerOnlyAfterParse == C22_WithoutHandler /\ C22_HandlerAfterSuccess

\* `a 5` on the registry whose `a` is a group without a handler
C22_Witness ==
  /\ Executed
  /\ registry = RegistryGroup
  /\ cmdTokens = <<A, <<"5">>>>
  /\ found = CommandAt(<<A>>)
  /\ extracted.rest = << <<"5">> >>
  /\ ExecFailsWith("VALIDATION_ERROR", "requires a subcommand")
  /\ parsed = NotParsed

\* the tokens of the command, once tokenize has returned them
Tokenized == Executed /\ result.ok /\ Len(result.value) > 0

IsHelpFlag(token) == token = DashDashHelp \/ token = DashH

IsVersionFlag(token) == token = DashDashVersion \/ token = DashV

HelpFlagPositions == {k \in 1..Len(result.value) : IsHelpFlag(result.value[k])}

VersionFlagPositions == {k \in 1..Len(result.value) : IsVersionFlag(result.value[k])}

FirstHelpFlag == CHOOSE k \in HelpFlagPositions : \A j \in HelpFlagPositions : k <= j

ReturnsHelpBeforeFlag ==
  execResult[1] = ExecuteResult(handleHelp(registry, SubSeq(result.value, 1, FirstHelpFlag - 1)), FALSE)

ReturnsVersion == execResult[1] = ExecuteResult(handleVersion, FALSE)

\* a help or version flag anywhere decides the call, and no handler runs
FlagDecides ==
  /\ HelpFlagPositions # {} => ReturnsHelpBeforeFlag
  /\ (HelpFlagPositions = {} /\ VersionFlagPositions # {}) => ReturnsVersion
  /\ (HelpFlagPositions # {} \/ VersionFlagPositions # {}) => (handlerCalls = <<>> /\ parsed = NotParsed)

\* the token is a short option or cluster that names the alias
UsesAlias(token, alias) ==
  /\ Len(token) > 1
  /\ token[1] = "-"
  /\ token[2] # "-"
  /\ \E k \in 2..Len(token) : token[k] = alias

AliasReachesParseArgs ==
  /\ parsed # NotParsed
  /\ \E k \in 1..Len(argTokens) : UsesAlias(argTokens[k], "h") \/ UsesAlias(argTokens[k], "v")

IsBuiltin(token) == token \in {HelpWord, SchemaWord, VersionWord}

\* C26 as stated: '--help' or '-h' anywhere returns the help of the tokens
\* before it, otherwise '--version' or '-v' anywhere returns the version, no
\* handler runs, and the alias 'h' or 'v' of a command never reaches parseArgs.
C26_FlagAnywhere ==
  Tokenized => (FlagDecides /\ ~AliasReachesParseArgs)

\* what a built-in first token returns, whatever follows it
BuiltinDecides ==
  /\ result.value[1] = HelpWord => execResult[1] = ExecuteResult(handleHelp(registry, Tail(result.value)), FALSE)
  /\ result.value[1] = SchemaWord => execResult[1] = ExecuteResult(handleSchema(registry, Tail(result.value)), FALSE)
  /\ result.value[1] = VersionWord => ReturnsVersion
  /\ handlerCalls = <<>>
  /\ parsed = NotParsed

\* C26 (amended): unless the first token is the built-in help, schema or
\* version, a token '--help' or '-h' anywhere returns the help of the tokens
\* before it and otherwise a token '--version' or '-v' anywhere returns the
\* version, without a handler; no token equal to one of the four reaches
\* parseArgs.
C26_FlagAfterBuiltins ==
  Tokenized =>
    /\ IsBuiltin(result.value[1]) => BuiltinDecides
    /\ ~IsBuiltin(result.value[1]) => FlagDecides
    /\ parsed # NotParsed =>
         \A k \in 1..Len(argTokens) : ~IsHelpFlag(argTokens[k]) /\ ~IsVersionFlag(argTokens[k])

\* `a -- -v`: the version, although -v stands after the end-of-options marker
C26_Witness ==
  /\ Executed
  /\ registry = RegistryBoth
  /\ result.ok
  /\ result.value = <<A, <<"-", "-">>, DashV>>
  /\ ReturnsVersion
  /\ handlerCalls = <<>>

\* ---------------------------------------------------------------------------
\* Properties of concurrent invocations
\* ---------------------------------------------------------------------------
\* what invocation k returns when it runs alone on the registry
ResultsAlone(k) ==
  LET alone == executeCommand(command[k], registry)
  IN IF alone.invoked
       THEN {AfterHandler(alone.found.at, alone.argsResult.value, outcome) : outcome \in HandlerOutcomes}
       ELSE {alone.returned}

\* the handler call invocation k makes when it runs alone on the registry
AwaitsAlone(k) ==
  LET alone == executeCommand(command[k], registry)
  IN /\ alone.invoked
     /\ \E n \in 1..Len(handlerCalls) :
          handlerCalls[n] = HandlerCall(k, alone.found.at, alone.argsResult.value)

SameAsAlone ==
  \A k \in Invocations :
    /\ epc[k] = "done" => execResult[k] \in ResultsAlone(k)
    /\ epc[k] = "awaiting" => AwaitsAlone(k)

\* the input token list is what tokenize returned, after the call as before
TokensKept == (result.ok /\ \E k \in Invocations : epc[k] # "idle") => cmdTokens = result.value

IsPrefixOf(s, t) == Len(s) <= Len(t) /\ s = SubSeq(t, 1, Len(s))

\* the lines written to the input stream, arrived or not
Script == arrived \o stdin

\* a command is running: executeCommand has been called and its result has
\* not been printed
CommandRunning == lpc \in {"handler", "print"}

\* lines are handed to processLine in the order of their arrival
InArrivalOrder == IsPrefixOf(started, arrived) /\ arrived = started \o queue

\* a 'line' event during a command only appends the line to the queue
OnlyQueued ==
  (CommandRunning /\ arrived' # arrived) =>
    /\ queue' = Append(queue, Head(stdin))
    /\ UNCHANGED <<started, printed, active, lpc, processing, exiting, exited, execVars>>

\* nothing is executed or printed once an exit line has been processed
NothingAfterExit ==
  exiting => (exited /\ IsExitLine(started[Len(started)]) /\ started' = started /\ printed' = printed)

\* every result printed belongs to the command line most recently started
PrintsOfStartedLines ==
  \A n \in 1..Len(printed) :
    printed[n].text = "result" =>
      \E m \in 1..Len(started) : IsCommandLine(started[m]) /\ printed[n].command = Trim(started[m])

\* C24: lines are processed one at a time in the order of their arrival; a
\* line that arrives while a command runs is only queued; at most one
\* processLine is in progress; after an exit line no queued line is executed.
C24_OneLineAtATime ==
  /\ [](InArrivalOrder /\ active <= 1 /\ PrintsOfStartedLines)
  /\ [][OnlyQueued /\ NothingAfterExit]_vars

\* a line has arrived and waits in the queue while the handler of the line
\* before it is awaited
C24_Witness ==
  /\ lpc = "handler"
  /\ active = 1
  /\ started = << Join(<<A, B>>, <<" ">>) >>
  /\ queue = << A, ExitWord >>
  /\ printed = <<>>

HasExitLine == \E n \in 1..Len(Script) : IsExitLine(Script[n])

FirstExitLine == CHOOSE n \in 1..Len(Script) : IsExitLine(Script[n]) /\ \A m \in 1..(n - 1) : ~IsExitLine(Script[m])

\* the lines that precede the exit line (all lines where there is none)
LinesBeforeExit == IF HasExitLine THEN SubSeq(Script, 1, FirstExitLine - 1) ELSE Script

CommandLinesBeforeExit == {n \in 1..Len(LinesBeforeExit) : IsCommandLine(LinesBeforeExit[n])}

ResultsPrinted == {n \in 1..Len(printed) : printed[n].text = "result"}

\* every line before the exit line has been handed to processLine and the
\* result of every command among them has been printed
AllBeforeExitDone ==
  /\ IsPrefixOf(LinesBeforeExit, started)
  /\ Cardinality(ResultsPrinted) >= Cardinality(CommandLinesBeforeExit)

\* C25: when the lines and the end of the input arrive at once, the process
\* does not exit before every line that precedes the exit line has been
\* executed and its result printed, however late a handler settles.
C25_LinesBeforeExitExecuted == (HasExitLine /\ exited) => AllBeforeExitDone

\* the scan is at a long option that names a flag field
AtFlagOption ==
  /\ AtLongOption
  /\ IsFlagField(argDefs, ReplaceHyphens(LongKey(argTokens[ai])))

\* the token before the one the scan is at is a flag option without an
\* inline value, and the scan is at a token that is no option
AfterBareFlag ==
  /\ ScanningArgs
  /\ ai > 1
  /\ Len(argTokens[ai - 1]) > 2
  /\ SubSeq(argTokens[ai - 1], 1, 2) = <<"-", "-">>
  /\ ~HasInlineValue(argTokens[ai - 1])
  /\ IsFlagField(argDefs, ReplaceHyphens(LongKey(argTokens[ai - 1])))
  /\ ~(Len(argTokens[ai]) > 0 /\ argTokens[ai][1] = "-")

\* C27: a long option that names a flag field sets the field to true, with
\* or without an inline value and whatever the inline value is, returns no
\* error and consumes no token; the token after a bare flag is scanned as a
\* token of its own and, being no option, becomes a positional candidate.
C27_Step ==
  /\ AtFlagOption =>
       /\ apc' = "scan"
       /\ ai' = ai + 1
       /\ rawValues' = Set(rawValues, ReplaceHyphens(LongKey(argTokens[ai])), Bool(TRUE))
       /\ positionalValues' = positionalValues
  /\ AfterBareFlag =>
       /\ apc' = "scan"
       /\ ai' = ai + 1
       /\ rawValues' = rawValues
       /\ positionalValues' = Append(positionalValues, argTokens[ai])

C27_FlagIgnoresValue == [][C27_Step]_vars

\* `--v=false --v= --v 5`: v is true and 5 is the candidate for index 0
C27_Witness ==
  /\ apc = "done"
  /\ argDefs = SchemaExample
  /\ argTokens = <<LongInline(<<"v">>, FalseWord), Long(<<"v">>), <<"5">>>>
  /\ positionalValues = << <<"5">> >>
  /\ parsed.ok
  /\ parsed.value[<<"v">>] = Bool(TRUE)
  /\ parsed.value[<<"n">>] = Num(5)

\* the fields declared with the positional index k (0-based)
FieldsAt(k) == {n \in 1..Len(argDefs) : argDefs[n].meta.positional = k}

\* the candidate at index k is discarded: no field has the index, or the
\* field has a value already
Discarded(k) == \A n \in FieldsAt(k) : Get(rawValues, argDefs[n].name).t # "undefined"

\* the candidates with the discarded one at index k replaced by `other`
Replaced(k, other) == [positionalValues EXCEPT ![k + 1] = other]

\* the candidates up to, not including, index k
Before(k) == SubSeq(positionalValues, 1, k)

\* a field changes only by receiving the candidate at its own index
OfferedToOwnIndex ==
  \A n \in 1..Len(argDefs) :
    LET name == argDefs[n].name
        pos == argDefs[n].meta.positional
    IN Get(rawValues', name) # Get(rawValues, name) =>
         /\ pos >= 0
         /\ pos < Len(positionalValues)
         /\ Get(rawValues, name).t = "undefined"
         /\ Get(rawValues', name) = Str(positionalValues[pos + 1])

\* a discarded candidate decides nothing: with another text in its place, or
\* as the last candidate left out, the call returns the same
DiscardedDecidesNothing ==
  \A k \in 0..(Len(positionalValues) - 1) :
    Discarded(k) =>
      /\ \A other \in {<<>>, Z} :
           parsed' = AfterScan(argDefs, ScanLocals(rawValues, Replaced(k, other), ai))
      /\ k = Len(positionalValues) - 1 =>
           parsed' = AfterScan(argDefs, ScanLocals(rawValues, Before(k), ai))

\* C28: after the scan the candidate at index k is given only to the field
\* declared with positional index k; a candidate without such a field, or
\* whose field has a value already, is dropped: no other field receives it,
\* and neither a failure nor the returned value depends on it.
C28_Step == ScanOver => (OfferedToOwnIndex /\ DiscardedDecidesNothing)

C28_PositionalByIndex == [][C28_Step]_vars

\* `5 --r=b a`: the candidate a at index 1 is dropped, r was given by name
C28_Witness ==
  /\ apc = "done"
  /\ argDefs = SchemaRequired
  /\ argTokens = <<<<"5">>, LongInline(<<"r">>, B), A>>
  /\ positionalValues = <<<<"5">>, A>>
  /\ parsed.ok
  /\ parsed.value[<<"r">>] = Str(B)
  /\ parsed.value[<<"n">>] = Num(5)
  /\ \A n \in 1..Len(argDefs) : Get(rawValues, argDefs[n].name) # Str(A)

\* ---------------------------------------------------------------------------
\* Properties of the token-length check
\* ---------------------------------------------------------------------------
\* C29: no call returns 'Argument exceeds maximum length': an input of more
\* than 10,000 characters returns the command-length error with nothing
\* scanned, and in every other call no token and no pending token is longer
\* than the input, hence none is longer than a token may be.
C29_ArgLengthUnreachable ==
  pc = "done" =>
    /\ result # ArgTooLong
    /\ Len(input) > MAX_COMMAND_LENGTH => (result = CommandTooLong /\ i = 1 /\ tokens = <<>>)
    /\ Len(input) <= MAX_COMMAND_LENGTH => result # CommandTooLong
    /\ Len(current) <= Len(input)
    /\ \A k \in 1..Len(tokens) : Len(tokens[k]) <= Len(input)
    /\ Len(input) <= MAX_COMMAND_LENGTH =>
         /\ Len(current) <= MAX_ARG_LENGTH
         /\ \A k \in 1..Len(tokens) : Len(tokens[k]) <= MAX_ARG_LENGTH

\* 'a ' followed by 10,001 'x'
C29_Witness ==
  /\ pc = "done"
  /\ input = ArgOverInput
  /\ Len(input) = MAX_ARG_LENGTH + 3
  /\ result = CommandTooLong

\* ---------------------------------------------------------------------------
\* Properties of a pending escape
\* ---------------------------------------------------------------------------
\* the call has returned after the whole input, with an escape pending
PendingEscape == pc = "done" /\ i > Len(input) /\ isEscaped

\* the input without its last character
WithoutLast == SubSeq(input, 1, Len(input) - 1)

\* C30 as stated: an input that ends with a pending escape succeeds, with the
\* tokens of the input without the final backslash.
C30_PendingEscapeSucceeds ==
  PendingEscape =>
    /\ result.ok
    /\ tokenize(WithoutLast).locals.ret.ok
    /\ result.value = tokenize(WithoutLast).locals.ret.value

\* C30 (amended): a pending escape at the end of the input is itself no
\* error and the backslash is dropped: the call returns what it returns for
\* the input without the final backslash, which is a failure when a double
\* quote is open or more than MAX_ARGS tokens were found.
C30_PendingEscapeDropped ==
  PendingEscape =>
    /\ input[Len(input)] = "\\"
    /\ ~inSingleQuote
    /\ result = tokenize(WithoutLast).locals.ret
    /\ result.ok <=> (~inDoubleQuote /\ Len(tokens) <= MAX_ARGS)
    /\ inDoubleQuote => result = UnclosedDouble

\* `a a\`: the tokens a, a
C30_Witness ==
  /\ PendingEscape
  /\ round = 1
  /\ input = <<"a", " ", "a", "\\">>
  /\ result = Ok(<<A, A>>)

====
